---- MODULE Spec2Model ----
(***************************************************************************)
(* PP Builder: the block tree codec (ppbuilder.serializer.js), the         *)
(* Dataverse Web API client in its three-state form                        *)
(* (ppbuilder.apiclient.js) and its two-state form (the client in          *)
(* blocks/media-blocks.js), and the page manager's cascading delete        *)
(* (ppbuilder.pagemanager.js).                                             *)
(*                                                                         *)
(* Conventions.  A JavaScript identifier value (a GUID string) is a        *)
(* positive number; 0 stands for null / undefined / '' (every falsy        *)
(* identifier).  A numeric field that is absent is Undef.  A settings      *)
(* object is a set of <<key, value>> pairs with at most one pair per key.  *)
(* A JavaScript object reference is the index of the object in the heap    *)
(* the operation allocates it in (a function from references to objects):  *)
(* buildBlockTree mutates the children arrays of the objects it holds in   *)
(* its Map, so a forest is a list of root references plus that heap.       *)
(***************************************************************************)
EXTENDS Integers, Sequences, FiniteSets, TLC

\* ------------------------------------------------------------------ bounds
\* The longest flat block list handed to the codec.
MaxBlocks == 3

\* The most components the editor holds.
MaxComponents == 2

\* The last identifier the backend gives out: it creates no row beyond it.
MaxRows == 5

Undef == -1

\* ------------------------------------------------------- JavaScript basics
\* a || b on identifiers.
OrElse(a, b) == IF a # 0 THEN a ELSE b

Last(s) == s[Len(s)]

Range(s) == {s[i] : i \in 1..Len(s)}

\* Stored settings texts and the objects JSON.parse makes of them.  Any other
\* text makes JSON.parse throw a SyntaxError.
EmptySettings == {}

TextSettings == {<<"text", "hi">>}

PaddingSettings == {<<"padding", "medium">>}

JsonTexts == {"{}", "{\"text\":\"hi\"}", "{\"padding\":\"medium\"}"}

JSONparses(text) == text \in JsonTexts

JSONparse(text) ==
  CASE text = "{}" -> EmptySettings
    [] text = "{\"text\":\"hi\"}" -> TextSettings
    [] text = "{\"padding\":\"medium\"}" -> PaddingSettings

JSONstringify(settings) ==
  CASE settings = EmptySettings -> "{}"
    [] settings = TextSettings -> "{\"text\":\"hi\"}"
    [] settings = PaddingSettings -> "{\"padding\":\"medium\"}"

\* A mutant of ObjectAssign: a key of the target keeps its value.
ObjectAssignKeeping(target, source) ==
  target \cup {sv \in source : \A kv \in target : kv[1] # sv[1]}

\* Object.assign(target, source) on settings objects.
ObjectAssign(target, source) ==
  {kv \in target : \A sv \in source : sv[1] # kv[1]} \cup source

\* ------------------------------------------------------------------ state
VARIABLES
  \* -- the codec's inputs and results
  blockShape,        \* "block": records as the serializer writes them (id,
                     \* parentBlockId); "dataverse": records as the Web API
                     \* returns them (pp_blockid, pp_parentblockid)
  flatBlocks,        \* the flat block list handed to the codec
  rootBlocks,        \* buildBlockTree(flatBlocks)
  flatOut,           \* flattenBlockTree(rootBlocks)
  rootBlocks2,       \* buildBlockTree(flatOut)
  grapesComponents,  \* dataverseToGrapesJS(flatBlocks), as the editor holds it
  savedBlocks,       \* grapesJSToDataverse(grapesComponents)
  codecStep,         \* the codec operation applied last
  \* -- the backend (the Dataverse tables behind the Web API)
  pp_pages,          \* page rows: identifier -> [pp_pageid, pp_slug]
  pp_versions,       \* version rows: identifier -> [pp_versionid, pageid,
                     \*   pp_status, pp_versionnumber]
  pp_blocks,         \* block rows: identifier -> [pp_blockid, versionid,
                     \*   pp_parentblockid, pp_type, pp_blocktype, pp_order,
                     \*   pp_data, pp_isactive]
  nextId,            \* the identifier the backend gives the next row it creates
  \* -- the client
  editor,            \* the components under the editor's wrapper (roots, heap)
  currentPage,       \* pp_pageid of the application's currentPage, 0 for null
  currentVersion,    \* pp_versionid of its currentVersion, 0 for null
  sessions,          \* the saves that run concurrently (the auto-save timer's
                     \* and the user's): for each its pc, req and wf
  isDirty,           \* the application's isDirty flag
  pc,                \* where the running workflow awaits: "idle", "done",
                     \* "failed", or the request it awaits the response of
  wf,                \* the locals of the running workflow
  req,               \* the request in flight: issued, not yet handled
  issued             \* the requests the running workflow has issued, in order

codecVars ==
  <<blockShape, flatBlocks, rootBlocks, flatOut, rootBlocks2,
    grapesComponents, savedBlocks, codecStep>>

backendVars == <<pp_pages, pp_versions, pp_blocks, nextId>>

pageVars == <<editor, currentPage, currentVersion, sessions>>

appVars == <<pageVars, isDirty>>

clientVars == <<appVars, pc, wf, req, issued>>

vars == <<codecVars, backendVars, clientVars>>

\* ------------------------------------------------------------ block records
\* The two record shapes buildBlockTree reads (block.id || block.pp_blockid,
\* block.parentBlockId || block.pp_parentblockid).  payload carries the
\* fields the codec copies without reading.
BlockRecord(shape, bid, parentId, payload) ==
  IF shape = "block"
  THEN [id |-> bid, parentBlockId |-> parentId, sortOrder |-> payload.order,
        templateName |-> payload.type, pp_blockid |-> 0, pp_parentblockid |-> 0,
        pp_order |-> Undef, pp_type |-> "", pp_data |-> ""]
  ELSE [id |-> 0, parentBlockId |-> 0, sortOrder |-> Undef,
        templateName |-> "", pp_blockid |-> bid, pp_parentblockid |-> parentId,
        pp_order |-> payload.order, pp_type |-> payload.type,
        pp_data |-> payload.data]

Payloads ==
  { [order |-> 5, type |-> "pp_layout_row", data |-> ""],
    [order |-> 0, type |-> "pp_content_text", data |-> "{\"text\":\"hi\"}"] }

\* The identifier of the i-th block of the input list: distinct per position,
\* and not the position itself.
BlockIdAt(i) == MaxBlocks + 1 - i

\* Identifiers a parent reference may hold: none, any identifier a block of a
\* full list carries, and one no block carries.
ParentIds == 0..(MaxBlocks + 1)

NoForest == [roots |-> <<>>, heap |-> <<>>]

\* ---------------------------------------------------------- buildBlockTree
blockKey(block) == OrElse(block.id, block.pp_blockid)

blockParentKey(block) == OrElse(block.parentBlockId, block.pp_parentblockid)

\* Map.set in list order: a later block with the same key replaces an
\* earlier one.  blockMap maps a key to the reference of its node.
buildBlockMap(blocks) ==
  [k \in {blockKey(blocks[i]) : i \in 1..Len(blocks)} |->
     CHOOSE i \in 1..Len(blocks) :
       /\ blockKey(blocks[i]) = k
       /\ \A j \in 1..Len(blocks) : blockKey(blocks[j]) = k => j <= i]

\* A mutant of placeBlock: a block whose parent is missing is promoted to a
\* root instead of being dropped.
placeBlockPromotingOrphans(forest, blockMap, parentId, current) ==
  IF parentId # 0 /\ parentId \in DOMAIN blockMap
  THEN [forest EXCEPT !.heap[blockMap[parentId]].children = Append(@, current)]
  ELSE [forest EXCEPT !.roots = Append(@, current)]

\* A mutant of placeBlock: children are put in front of their siblings.
placeBlockPrepending(forest, blockMap, parentId, current) ==
  IF parentId # 0
  THEN IF parentId \in DOMAIN blockMap
       THEN [forest EXCEPT !.heap[blockMap[parentId]].children = <<current>> \o @]
       ELSE forest
  ELSE [forest EXCEPT !.roots = Append(@, current)]

\* A mutant of placeBlock: a block that names no parent is pushed on the
\* roots twice.
placeBlockTwice(forest, blockMap, parentId, current) ==
  IF parentId # 0
  THEN IF parentId \in DOMAIN blockMap
       THEN [forest EXCEPT !.heap[blockMap[parentId]].children = Append(@, current)]
       ELSE forest
  ELSE [forest EXCEPT !.roots = @ \o <<current, current>>]

\* The body of the second forEach: push current on its parent's children, on
\* the roots when it names no parent, nowhere when the parent is not mapped.
placeBlock(forest, blockMap, parentId, current) ==
  IF parentId # 0
  THEN IF parentId \in DOMAIN blockMap
       THEN [forest EXCEPT !.heap[blockMap[parentId]].children = Append(@, current)]
       ELSE forest
  ELSE [forest EXCEPT !.roots = Append(@, current)]

RECURSIVE linkBlocks(_, _, _, _)
linkBlocks(blocks, blockMap, i, forest) ==
  IF i > Len(blocks) THEN forest
  ELSE linkBlocks(blocks, blockMap, i + 1,
                  placeBlock(forest, blockMap, blockParentKey(blocks[i]),
                             blockMap[blockKey(blocks[i])]))

\* buildBlockTree(flatBlocks): node r of the heap is {...flatBlocks[r],
\* children: []} after the first pass.
buildBlockTree(blocks) ==
  linkBlocks(blocks, buildBlockMap(blocks), 1,
             [roots |-> <<>>,
              heap |-> [r \in 1..Len(blocks) |->
                          [block |-> blocks[r], children |-> <<>>]]])

\* -------------------------------------------------------- flattenBlockTree
\* A mutant of flatRecord: the parent identifier is not recorded.
flatRecordDroppingParent(block, parentId, sortOrder) ==
  [block EXCEPT !.parentBlockId = 0, !.sortOrder = sortOrder]

\* A mutant of flatRecord: the node keeps the sortOrder it carried.
flatRecordKeepingOrder(block, parentId, sortOrder) ==
  [block EXCEPT !.parentBlockId = parentId]

\* {...block, parentBlockId: parentId, sortOrder: sortOrder++} without children.
flatRecord(block, parentId, sortOrder) ==
  [block EXCEPT !.parentBlockId = parentId, !.sortOrder = sortOrder]

RECURSIVE traverse(_, _, _, _)
RECURSIVE traverseChildren(_, _, _, _, _)
\* A mutant of traverse: the record of a node is pushed after the records
\* of its children.
traverseChildrenFirst(forest, ref, parentId, acc) ==
  LET node == forest.heap[ref]
      below == traverseChildren(forest, node.children, 1, node.block.id, acc)
  IN [flatBlocks |-> Append(below.flatBlocks,
                            flatRecord(node.block, parentId, below.sortOrder)),
      sortOrder |-> below.sortOrder + 1]

\* acc is flatBlocks and the sortOrder counter of the enclosing call.
traverse(forest, ref, parentId, acc) ==
  LET node == forest.heap[ref]
      pushed == [flatBlocks |-> Append(acc.flatBlocks,
                                       flatRecord(node.block, parentId, acc.sortOrder)),
                 sortOrder |-> acc.sortOrder + 1]
  IN traverseChildren(forest, node.children, 1, node.block.id, pushed)

traverseChildren(forest, children, k, parentId, acc) ==
  IF k > Len(children) THEN acc
  ELSE traverseChildren(forest, children, k + 1, parentId,
                        traverse(forest, children[k], parentId, acc))

flattenBlockTree(forest) ==
  traverseChildren(forest, forest.roots, 1, 0,
                   [flatBlocks |-> <<>>, sortOrder |-> 0]).flatBlocks

\* ------------------------------------------------------ dataverseToGrapesJS
\* settings[key], '' when the key is absent.
SettingOf(settings, key) ==
  IF \E kv \in settings : kv[1] = key
  THEN (CHOOSE kv \in settings : kv[1] = key)[2]
  ELSE ""

parseDataverseBlock(block) ==
  [id |-> block.pp_blockid,
   templateName |-> block.pp_type,
   sortOrder |-> block.pp_order,
   parentBlockId |-> block.pp_parentblockid,
   settings |-> IF block.pp_data # "" THEN JSONparse(block.pp_data)
                ELSE EmptySettings]

\* The component descriptor of a parsed block; components are the references
\* of the descriptors of its children.  The descriptor carries no
\* data-settings and no data-zone attribute.
blockToGrapesComponent(block, children) ==
  [type |-> block.templateName,
   blockId |-> block.id,
   dataSettings |-> "",
   traits |-> block.settings,
   content |-> IF SettingOf(block.settings, "text") # ""
               THEN SettingOf(block.settings, "text")
               ELSE SettingOf(block.settings, "content"),
   components |-> children]

dataverseBlockMap(blocks) ==
  [k \in {blocks[i].pp_blockid : i \in 1..Len(blocks)} |->
     CHOOSE i \in 1..Len(blocks) :
       /\ blocks[i].pp_blockid = k
       /\ \A j \in 1..Len(blocks) : blocks[j].pp_blockid = k => j <= i]

\* A mutant of placeDataverseBlock: an orphan becomes a root.
placeDataverseBlockPromotingOrphans(forest, blockMap, parentId, current) ==
  IF parentId # 0 /\ parentId \in DOMAIN blockMap
  THEN [forest EXCEPT !.heap[blockMap[parentId]].children = Append(@, current)]
  ELSE [forest EXCEPT !.roots = Append(@, current)]

placeDataverseBlock(forest, blockMap, parentId, current) ==
  IF parentId # 0
  THEN IF parentId \in DOMAIN blockMap
       THEN [forest EXCEPT !.heap[blockMap[parentId]].children = Append(@, current)]
       ELSE forest
  ELSE [forest EXCEPT !.roots = Append(@, current)]

RECURSIVE linkDataverseBlocks(_, _, _, _)
linkDataverseBlocks(blocks, blockMap, i, forest) ==
  IF i > Len(blocks) THEN forest
  ELSE linkDataverseBlocks(blocks, blockMap, i + 1,
         placeDataverseBlock(forest, blockMap, blocks[i].pp_parentblockid,
                             blockMap[blocks[i].pp_blockid]))

\* dataverseToGrapesJS(dataverseBlocks, editor): the descriptors, as a list of
\* root references and a heap, or the SyntaxError JSON.parse throws in
\* _parseDataverseBlock.
dataverseToGrapesJS(blocks) ==
  IF \E i \in 1..Len(blocks) :
       blocks[i].pp_data # "" /\ ~JSONparses(blocks[i].pp_data)
  THEN [error |-> "SyntaxError", roots |-> <<>>, heap |-> <<>>]
  ELSE LET linked ==
             linkDataverseBlocks(blocks, dataverseBlockMap(blocks), 1,
               [roots |-> <<>>,
                heap |-> [r \in 1..Len(blocks) |->
                            [block |-> parseDataverseBlock(blocks[r]),
                             children |-> <<>>]]])
       IN [error |-> "",
           roots |-> linked.roots,
           heap |-> [r \in 1..Len(blocks) |->
                       blockToGrapesComponent(linked.heap[r].block,
                                              linked.heap[r].children)]]

\* ------------------------------------------------------ grapesJSToDataverse
\* _generateGUID(): the n-th identifier drawn; never one the backend or an
\* earlier draw gave out.
generateGUID(n) == 1000 + n

\* templateName.startsWith(prefix), on the template names of the model.
StartsWith(templateName, prefix) ==
  \/ prefix = "pp_layout" /\ templateName \in {"pp_layout_row"}
  \/ prefix = "pp_content" /\ templateName \in {"pp_content_text"}

getBlockTypeFromTemplate(templateName) ==
  IF StartsWith(templateName, "pp_layout") THEN 1
  ELSE IF StartsWith(templateName, "pp_content") THEN 2
  ELSE IF StartsWith(templateName, "pp_media") THEN 3
  ELSE IF StartsWith(templateName, "pp_nav") THEN 4
  ELSE IF StartsWith(templateName, "pp_dv") THEN 5
  ELSE 2

\* The traits whose value is neither undefined, null nor '', then
\* Object.assign with the parsed data-settings attribute (a parse error is
\* caught and leaves the trait settings).
componentSettings(component) ==
  LET traitSettings == {kv \in component.traits : kv[2] # ""}
  IN IF component.dataSettings # "" /\ JSONparses(component.dataSettings)
     THEN ObjectAssign(traitSettings, JSONparse(component.dataSettings))
     ELSE traitSettings

\* A mutant of grapesComponentToBlock: every record gets sortOrder 0.
grapesComponentToBlockZeroOrder(component, versionId, parentBlockId, sortOrder, guids) ==
  [id |-> IF component.blockId # 0 THEN component.blockId
          ELSE generateGUID(guids),
   pageversionId |-> versionId,
   parentBlockId |-> parentBlockId,
   templateName |-> component.type,
   blockType |-> getBlockTypeFromTemplate(component.type),
   sortOrder |-> 0,
   settings |-> componentSettings(component),
   isActive |-> TRUE]

\* _grapesComponentToBlock; guids counts the identifiers generated before.
grapesComponentToBlock(component, versionId, parentBlockId, sortOrder, guids) ==
  [id |-> IF component.blockId # 0 THEN component.blockId
          ELSE generateGUID(guids),
   pageversionId |-> versionId,
   parentBlockId |-> parentBlockId,
   templateName |-> component.type,
   blockType |-> getBlockTypeFromTemplate(component.type),
   sortOrder |-> sortOrder,
   settings |-> componentSettings(component),
   isActive |-> TRUE]

RECURSIVE processComponent(_, _, _, _, _)
RECURSIVE processComponents(_, _, _, _, _, _)
\* acc is blocks, the sortOrder counter and the count of generated GUIDs.
processComponent(comps, ref, versionId, parentBlockId, acc) ==
  LET component == comps.heap[ref]
      block == grapesComponentToBlock(component, versionId, parentBlockId,
                                      acc.sortOrder, acc.guids)
      pushed == [blocks |-> Append(acc.blocks, block),
                 sortOrder |-> acc.sortOrder + 1,
                 guids |-> IF component.blockId # 0 THEN acc.guids
                           ELSE acc.guids + 1]
  IN processComponents(comps, component.components, 1, versionId, block.id, pushed)

processComponents(comps, children, k, versionId, parentBlockId, acc) ==
  IF k > Len(children) THEN acc
  ELSE processComponents(comps, children, k + 1, versionId, parentBlockId,
         processComponent(comps, children[k], versionId, parentBlockId, acc))

\* grapesJSToDataverse(grapesComponents, versionId), with guids identifiers
\* generated before the call: the blocks and the new count.
grapesJSToDataverse(comps, versionId, guids) ==
  processComponents(comps, comps.roots, 1, versionId, 0,
                    [blocks |-> <<>>, sortOrder |-> 0, guids |-> guids])

\* ------------------------------------------------------- the codec's steps
NoReq == [op |-> "none"]

NoWf == [name |-> "none"]

\* The codec alone: no backend, no client workflow.
NoBackend ==
  /\ pp_pages = <<>>
  /\ pp_versions = <<>>
  /\ pp_blocks = <<>>
  /\ nextId = 1

NoClient ==
  /\ editor = NoForest
  /\ currentPage = 0
  /\ currentVersion = 0
  /\ sessions = <<>>
  /\ isDirty = FALSE
  /\ pc = "idle"
  /\ wf = NoWf
  /\ req = NoReq
  /\ issued = <<>>

\* The backend and the client alone: the codec's own state is not used.
NoCodec ==
  /\ blockShape = "block"
  /\ flatBlocks = <<>>
  /\ rootBlocks = NoForest
  /\ flatOut = <<>>
  /\ rootBlocks2 = NoForest
  /\ grapesComponents = [error |-> "", roots |-> <<>>, heap |-> <<>>]
  /\ savedBlocks = <<>>
  /\ codecStep = "input"

CodecInit ==
  /\ blockShape \in {"block", "dataverse"}
  /\ flatBlocks = <<>>
  /\ rootBlocks = NoForest
  /\ flatOut = <<>>
  /\ rootBlocks2 = NoForest
  /\ grapesComponents = [error |-> "", roots |-> <<>>, heap |-> <<>>]
  /\ savedBlocks = <<>>
  /\ codecStep = "input"
  /\ NoBackend
  /\ NoClient

\* The caller adds one more record to the list it will hand to the codec.
CodecAddBlock ==
  /\ codecStep = "input"
  /\ Len(flatBlocks) < MaxBlocks
  /\ \E parentId \in ParentIds, payload \in Payloads :
       flatBlocks' = Append(flatBlocks,
                            BlockRecord(blockShape, BlockIdAt(Len(flatBlocks) + 1),
                                        parentId, payload))
  /\ UNCHANGED <<blockShape, rootBlocks, flatOut, rootBlocks2,
                 grapesComponents, savedBlocks, codecStep>>

CodecBuild ==
  /\ codecStep = "input"
  /\ rootBlocks' = buildBlockTree(flatBlocks)
  /\ codecStep' = "built"
  /\ UNCHANGED <<blockShape, flatBlocks, flatOut, rootBlocks2,
                 grapesComponents, savedBlocks>>

CodecFlatten ==
  /\ codecStep = "built"
  /\ flatOut' = flattenBlockTree(rootBlocks)
  /\ codecStep' = "flattened"
  /\ UNCHANGED <<blockShape, flatBlocks, rootBlocks, rootBlocks2,
                 grapesComponents, savedBlocks>>

CodecRebuild ==
  /\ codecStep = "flattened"
  /\ rootBlocks2' = buildBlockTree(flatOut)
  /\ codecStep' = "rebuilt"
  /\ UNCHANGED <<blockShape, flatBlocks, rootBlocks, flatOut,
                 grapesComponents, savedBlocks>>

\* loadPage hands the records the Web API returned to dataverseToGrapesJS and
\* the result to the editor.
CodecLoad ==
  /\ codecStep = "input"
  /\ blockShape = "dataverse"
  /\ grapesComponents' = dataverseToGrapesJS(flatBlocks)
  /\ codecStep' = "loaded"
  /\ UNCHANGED <<blockShape, flatBlocks, rootBlocks, flatOut, rootBlocks2,
                 savedBlocks>>

\* saveDraft hands the editor's components to grapesJSToDataverse.
CodecSave ==
  /\ codecStep = "loaded"
  /\ grapesComponents.error = ""
  /\ savedBlocks' = grapesJSToDataverse(grapesComponents, 1, 0).blocks
  /\ codecStep' = "saved"
  /\ UNCHANGED <<blockShape, flatBlocks, rootBlocks, flatOut, rootBlocks2,
                 grapesComponents>>

CodecNext ==
  /\ \/ CodecAddBlock
     \/ CodecBuild
     \/ CodecFlatten
     \/ CodecRebuild
     \/ CodecLoad
     \/ CodecSave
  /\ UNCHANGED <<backendVars, clientVars>>

\* ------------------------------------------- reading a forest (for claims)
ChildrenOf(forest, ref) ==
  IF "children" \in DOMAIN forest.heap[ref]
  THEN forest.heap[ref].children
  ELSE forest.heap[ref].components

RECURSIVE SubtreeRefs(_, _)
SubtreeRefs(forest, ref) ==
  {ref} \cup UNION {SubtreeRefs(forest, c) : c \in Range(ChildrenOf(forest, ref))}

\* The nodes of the forest: the roots and their descendants.
TreeRefs(forest) == UNION {SubtreeRefs(forest, r) : r \in Range(forest.roots)}

RECURSIVE PreOrderOf(_, _, _)
\* The pre-order listing of the trees rooted at refs[k..]: a node, then the
\* listing of its children, then its next sibling.
PreOrderOf(forest, refs, k) ==
  IF k > Len(refs) THEN <<>>
  ELSE <<refs[k]>> \o PreOrderOf(forest, ChildrenOf(forest, refs[k]), 1)
                   \o PreOrderOf(forest, refs, k + 1)

PreOrder(forest) == PreOrderOf(forest, forest.roots, 1)

\* The reference of the parent of a node of the forest, 0 for a root.
ParentRef(forest, ref) ==
  IF \E p \in DOMAIN forest.heap : ref \in Range(ChildrenOf(forest, p))
  THEN CHOOSE p \in DOMAIN forest.heap : ref \in Range(ChildrenOf(forest, p))
  ELSE 0

RECURSIVE NestedBlock(_, _)
\* A block tree as a value: the identifier and the fields of the node other
\* than sortOrder, and the trees of its children in their order.
NestedBlock(forest, ref) ==
  [id |-> blockKey(forest.heap[ref].block),
   content |-> [forest.heap[ref].block EXCEPT !.sortOrder = 0],
   children |-> [k \in 1..Len(forest.heap[ref].children) |->
                   NestedBlock(forest, forest.heap[ref].children[k])]]

NestedForest(forest) ==
  [k \in 1..Len(forest.roots) |-> NestedBlock(forest, forest.roots[k])]

\* The input records that name a parent no record of the list carries.
Orphans(blocks) ==
  {i \in 1..Len(blocks) :
     /\ blockParentKey(blocks[i]) # 0
     /\ \A j \in 1..Len(blocks) : blockKey(blocks[j]) # blockParentKey(blocks[i])}

\* ----------------------------------------------------------------- C1
\* C1: building the tree of a flattened forest gives the forest back: the same
\* roots in the same order, the same children under each node in the same
\* order and the same node content, sortOrder values apart.
RoundTripRebuildsForest ==
  codecStep = "rebuilt" => NestedForest(rootBlocks2) = NestedForest(rootBlocks)

\* A forest of three nodes, one under another, built from a list that is not
\* in pre-order, has been flattened and rebuilt.
RoundTripWitness ==
  /\ codecStep = "rebuilt"
  /\ Len(flatOut) = 3
  /\ \E r \in TreeRefs(rootBlocks) : Len(rootBlocks.heap[r].children) = 2
  /\ \E k \in 1..3 : blockKey(flatOut[k]) # blockKey(flatBlocks[k])
  /\ \E k \in 1..3 : flatOut[k].sortOrder # flatBlocks[k].sortOrder

\* ----------------------------------------------------------------- C2
\* C2: a block whose declared parent is no block of the list is neither a root
\* of the built tree nor a child of any node, in buildBlockTree and in
\* dataverseToGrapesJS alike, and the call raises no error.
OrphansAreDropped ==
  /\ codecStep = "built" =>
       \A i \in Orphans(flatBlocks) :
         /\ i \notin Range(rootBlocks.roots)
         /\ \A r \in DOMAIN rootBlocks.heap : i \notin Range(rootBlocks.heap[r].children)
  /\ codecStep = "loaded" =>
       /\ grapesComponents.error = ""
       /\ \A i \in Orphans(flatBlocks) :
            /\ i \notin Range(grapesComponents.roots)
            /\ \A r \in DOMAIN grapesComponents.heap :
                 i \notin Range(grapesComponents.heap[r].components)

\* A list with an orphan that itself has a child, and a proper root, was built.
OrphanWitness ==
  /\ codecStep \in {"built", "loaded"}
  /\ Len(flatBlocks) = 3
  /\ \E i \in Orphans(flatBlocks) :
       \E j \in 1..3 : blockParentKey(flatBlocks[j]) = blockKey(flatBlocks[i])
  /\ \E j \in 1..3 : blockParentKey(flatBlocks[j]) = 0

\* ----------------------------------------------------------------- C3
\* C3: flattening a forest of n nodes gives n records, in pre-order (a node
\* before its children, siblings in list order), with sortOrder 0..n-1 in
\* list order, whatever sortOrder the nodes carried; for flattenBlockTree and
\* for grapesJSToDataverse.
FlattenAssignsDenseSortOrder ==
  /\ codecStep = "flattened" =>
       /\ Len(flatOut) = Cardinality(TreeRefs(rootBlocks))
       /\ \A k \in 1..Len(flatOut) :
            /\ flatOut[k].sortOrder = k - 1
            /\ blockKey(flatOut[k]) = blockKey(rootBlocks.heap[PreOrder(rootBlocks)[k]].block)
  /\ codecStep = "saved" =>
       /\ Len(savedBlocks) = Cardinality(TreeRefs(grapesComponents))
       /\ \A k \in 1..Len(savedBlocks) :
            /\ savedBlocks[k].sortOrder = k - 1
            /\ savedBlocks[k].id = grapesComponents.heap[PreOrder(grapesComponents)[k]].blockId

\* The spec's example shape: a root, then a root with two children, flattened
\* from nodes that carried other sortOrder values.
FlattenWitness ==
  /\ codecStep = "flattened"
  /\ Len(flatOut) = 3
  /\ \E r \in TreeRefs(rootBlocks) : Len(rootBlocks.heap[r].children) = 2
  /\ \E k \in 1..3 : rootBlocks.heap[PreOrder(rootBlocks)[k]].block.sortOrder # k - 1

SpecCodec == CodecInit /\ [][CodecNext]_vars

\* ------------------------------------------------------------ the backend
\* Every listing of the set S.
Perms(S) ==
  {q \in [1..Cardinality(S) -> S] :
     \A i, j \in 1..Cardinality(S) : i # j => q[i] # q[j]}

\* The block rows of a version, whatever their active flag.
BlocksOfVersion(versionId) ==
  {b \in DOMAIN pp_blocks : pp_blocks[b].versionid = versionId}

\* GET pp_blocks?$filter=_pp_versionid_value eq versionId and pp_isactive eq
\* true&$orderby=pp_order: the active rows of the version in ascending
\* pp_order, rows of equal pp_order in an order the backend chooses.
getBlocksResponses(versionId) ==
  LET matches == {b \in DOMAIN pp_blocks :
                    /\ pp_blocks[b].versionid = versionId
                    /\ pp_blocks[b].pp_isactive}
      listings == {q \in Perms(matches) :
                     \A i, j \in 1..Cardinality(matches) :
                       i < j => pp_blocks[q[i]].pp_order <= pp_blocks[q[j]].pp_order}
  IN {[i \in 1..Cardinality(matches) |-> pp_blocks[q[i]]] : q \in listings}

\* blocks.sort((a, b) => b.pp_order - a.pp_order): Array.prototype.sort is
\* stable, rows of equal pp_order keep their order.
sortByOrderDescending(rows) ==
  LET n == Len(rows)
      p == CHOOSE q \in Perms(1..n) :
             \A i, j \in 1..n :
               i < j => \/ rows[q[i]].pp_order > rows[q[j]].pp_order
                        \/ /\ rows[q[i]].pp_order = rows[q[j]].pp_order
                           /\ q[i] < q[j]
  IN [i \in 1..n |-> rows[p[i]]]

\* The requests of the client, as the backend sees them.
getBlocksRequest(versionId) == [op |-> "getBlocks", versionid |-> versionId]

deleteBlockRequest(blockId) == [op |-> "deleteBlock", id |-> blockId]

\* createBlock(blockData): the POST payload.  The payload carries no
\* identifier for the new row; the parent binding is added when
\* blockData.parentBlockId is truthy.
createBlockRequest(blockData) ==
  [op |-> "createBlock",
   versionid |-> blockData.pageversionId,
   parentblockid |-> blockData.parentBlockId,
   pp_type |-> blockData.templateName,
   pp_blocktype |-> blockData.blockType,
   pp_order |-> IF blockData.sortOrder = Undef THEN 0 ELSE blockData.sortOrder,
   pp_data |-> JSONstringify(blockData.settings),
   pp_isactive |-> blockData.isActive]

\* The row the backend stores for a createBlock request, under the
\* identifier it assigns.
createdBlockRow(blockId, request) ==
  [pp_blockid |-> blockId,
   versionid |-> request.versionid,
   pp_parentblockid |-> request.parentblockid,
   pp_type |-> request.pp_type,
   pp_blocktype |-> request.pp_blocktype,
   pp_order |-> request.pp_order,
   pp_data |-> request.pp_data,
   pp_isactive |-> request.pp_isactive]

\* ------------------------------------------------------------- the client
\* No workflow is awaiting a response.
Resting == pc \in {"idle", "done", "failed"}

\* The client goes on to await request r at p with locals w.
Goto(p, r, w) == [pc |-> p, req |-> r, wf |-> w]

Continue(next) ==
  /\ pc' = next.pc
  /\ req' = next.req
  /\ wf' = next.wf
  /\ issued' = IF next.req.op = "none" THEN issued ELSE Append(issued, next.req)

\* Does the save the application awaits return to it without an error when
\* workflow w goes on as next says.
Saved(w, next) ==
  /\ "app" \in DOMAIN w
  /\ w.name = "saveDraft"
  /\ \/ next.pc = "done"
     \/ next.wf.name = "publishPage" /\ next.wf.resave = ""

\* A step of apiClient.saveDraft: when it returns to the application's
\* saveDraft without an error, that sets isDirty = false.
ContinueSave(next) ==
  /\ Continue(next)
  /\ isDirty' = IF Saved(wf, next) THEN FALSE ELSE isDirty

\* A workflow starts by awaiting request r at p with locals w.
Start(next) ==
  /\ pc' = next.pc
  /\ req' = next.req
  /\ wf' = next.wf
  /\ issued' = <<next.req>>

\* pp_status of a version row of the three-state client.
Draft == 1

Published == 2

Archived == 3

VersionsOfPage(pageId) ==
  {v \in DOMAIN pp_versions : pp_versions[v].pageid = pageId}

\* GET pp_versions(versionId).
getVersionRequest(versionId) == [op |-> "getVersion", id |-> versionId]

\* The locals of publishPage(pageId, draftVersionId) at its first await.
\* publishedBefore and versionsBefore are the Published rows of the page and
\* all version rows when publishPage starts.
publishPageLocals(pageId, draftVersionId) ==
  [name |-> "publishPage", error |-> "",
   pageId |-> pageId, draftVersionId |-> draftVersionId,
   draftVersion |-> <<>>, draftBlocks |-> <<>>,
   publishedVersion |-> 0, cloned |-> 0, blockIdMap |-> <<>>,
   publishedBefore |->
     {v \in VersionsOfPage(pageId) : pp_versions[v].pp_status = Published},
   versionsBefore |-> DOMAIN pp_versions]

\* Is w a save that the application's publishPage awaits ("app" is the
\* application handler a workflow runs under, when it runs under one).
ResaveOfPublish(w) ==
  "app" \in DOMAIN w /\ w.app = "publishPage" /\ w.name = "saveDraft"

\* The application's saveDraft returns, having saved or having caught and
\* shown its error (w.error): to the user, or to the application's
\* publishPage, which goes on to apiClient.publishPage(currentPage.pp_pageid,
\* currentVersion.pp_versionid).  resave keeps how the save ended.
saveDraftReturns(w) ==
  IF ResaveOfPublish(w)
  THEN Goto("publishPage:getVersion", getVersionRequest(w.versionId),
            publishPageLocals(w.pageId, w.versionId)
              @@ [app |-> "publishPage", resave |-> w.error,
                  versionsAtStart |-> w.versionsAtStart])
  ELSE Goto(IF w.error = "" THEN "done" ELSE "failed", NoReq, w)

\* saveDraft's loop over blocks: the next createBlock, or the return.
saveDraftNext(w) ==
  IF Len(w.createdBlocks) < Len(w.blocks)
  THEN Goto("saveDraft:createBlock",
            createBlockRequest([w.blocks[Len(w.createdBlocks) + 1]
                                  EXCEPT !.pageversionId = w.versionId]),
            w)
  ELSE saveDraftReturns(w)

deletePageVersionRequest(versionId) == [op |-> "deletePageVersion", id |-> versionId]

\* deleteAllBlocks's loop over sortedBlocks: the next deleteBlock, or the
\* return to the caller: saveDraft, or the page manager's deletePage, which
\* deletes the version next.
deleteAllBlocksNext(w) ==
  IF w.deleted < Len(w.sortedBlocks)
  THEN Goto("deleteAllBlocks:deleteBlock",
            deleteBlockRequest(w.sortedBlocks[w.deleted + 1].pp_blockid), w)
  ELSE IF w.name = "saveDraft" THEN saveDraftNext(w)
  ELSE Goto("deletePage:deletePageVersion",
            deletePageVersionRequest(w.versions[w.versionsDeleted + 1].pp_versionid),
            w)

\* The block palette: a layout row and a text block, with their traits.
ComponentKinds ==
  { [type |-> "pp_layout_row", traits |-> PaddingSettings],
    [type |-> "pp_content_text", traits |-> TextSettings] }

\* The user drops a block of the palette on the canvas or into a layout
\* component (content components are not droppable).  New components carry
\* no data-block-id.
EditorAddComponent ==
  /\ Resting
  /\ Len(editor.heap) < MaxComponents
  /\ \E parent \in {0} \cup {r \in DOMAIN editor.heap :
                                 StartsWith(editor.heap[r].type, "pp_layout")},
        kind \in ComponentKinds :
       LET ref == Len(editor.heap) + 1
           component == [type |-> kind.type, blockId |-> 0, dataSettings |-> "",
                         traits |-> kind.traits, content |-> "",
                         components |-> <<>>]
           heap1 == Append(editor.heap, component)
       IN editor' =
            IF parent = 0
            THEN [roots |-> Append(editor.roots, ref), heap |-> heap1]
            ELSE [roots |-> editor.roots,
                  heap |-> [heap1 EXCEPT ![parent].components = Append(@, ref)]]
  /\ isDirty' = TRUE
  /\ UNCHANGED <<codecVars, backendVars, currentPage, currentVersion, sessions,
                 pc, wf, req, issued>>

\* updateBlock(blockId, {isActive}).
updateBlock ==
  /\ Resting
  /\ \E blockId \in DOMAIN pp_blocks, isActive \in BOOLEAN :
       /\ pp_blocks[blockId].pp_isactive # isActive
       /\ pp_blocks' = [pp_blocks EXCEPT ![blockId].pp_isactive = isActive]
  /\ UNCHANGED <<codecVars, pp_pages, pp_versions, nextId, clientVars>>

\* saveDraft(versionId, blocks) up to its first await, with the blocks the
\* application makes of the editor's components.  before is the set of
\* block rows the version holds when the workflow starts.
saveDraft ==
  /\ Resting
  /\ \E versionId \in DOMAIN pp_versions :
       LET made == grapesJSToDataverse(editor, versionId, 0)
       IN /\ nextId + Len(made.blocks) <= MaxRows + 1
          /\ Start(Goto("deleteAllBlocks:getBlocks", getBlocksRequest(versionId),
                           [name |-> "saveDraft", error |-> "",
                            versionId |-> versionId,
                            blocks |-> made.blocks, sortedBlocks |-> <<>>,
                            deleted |-> 0, createdBlocks |-> <<>>,
                            before |-> {b \in DOMAIN pp_blocks :
                                       pp_blocks[b].versionid = versionId}]))
  /\ UNCHANGED <<codecVars, backendVars, appVars>>

\* deleteAllBlocks after getBlocks has answered.
deleteAllBlocksSort ==
  /\ pc = "deleteAllBlocks:getBlocks"
  /\ \E rows \in getBlocksResponses(req.versionid) :
       ContinueSave(deleteAllBlocksNext(
                      [wf EXCEPT !.sortedBlocks = sortByOrderDescending(rows),
                                 !.deleted = 0]))
  /\ UNCHANGED <<codecVars, backendVars, pageVars>>

\* The backend deletes the block row; deleteAllBlocks goes on.
deleteAllBlocksDeleted ==
  /\ pc = "deleteAllBlocks:deleteBlock"
  /\ req.id \in DOMAIN pp_blocks
  /\ pp_blocks' = [b \in DOMAIN pp_blocks \ {req.id} |-> pp_blocks[b]]
  /\ ContinueSave(deleteAllBlocksNext([wf EXCEPT !.deleted = @ + 1]))
  /\ UNCHANGED <<codecVars, pp_pages, pp_versions, nextId, pageVars>>

\* The backend stores the new block row under its own identifier; saveDraft
\* goes on.
saveDraftCreated ==
  /\ pc = "saveDraft:createBlock"
  /\ req.versionid \in DOMAIN pp_versions
  /\ pp_blocks' = pp_blocks @@ (nextId :> createdBlockRow(nextId, req))
  /\ nextId' = nextId + 1
  /\ ContinueSave(saveDraftNext([wf EXCEPT !.createdBlocks = Append(@, nextId)]))
  /\ UNCHANGED <<codecVars, pp_pages, pp_versions, pageVars>>

\* A mutant of fetchThrows: the page manager's deletePage catches the failure
\* of a block or version delete inside its loop and goes on to delete the
\* page.
fetchThrowsDeletingOn ==
  /\ req.op # "none"
  /\ pc \notin {"deletePage:loadPagesList", "createPage:loadPagesList"}
  /\ Continue(IF wf.name = "deletePage"
                 /\ req.op \in {"deleteBlock", "deletePageVersion"}
              THEN Goto("deletePage:deletePage",
                        [op |-> "deletePage", id |-> wf.pageId],
                        [wf EXCEPT !.error = "fetch"])
              ELSE Goto("failed", NoReq, [wf EXCEPT !.error = "fetch"]))
  /\ UNCHANGED <<codecVars, backendVars, appVars>>

\* A mutant of fetchThrows: a saveDraft whose request fails takes back the
\* blocks it has created.
fetchThrowsRollingBack ==
  /\ req.op # "none"
  /\ pc \notin {"deletePage:loadPagesList", "createPage:loadPagesList"}
  /\ Continue(IF ResaveOfPublish(wf)
              THEN saveDraftReturns([wf EXCEPT !.error = "fetch"])
              ELSE Goto("failed", NoReq, [wf EXCEPT !.error = "fetch"]))
  /\ pp_blocks' = IF wf.name = "saveDraft"
                  THEN [b \in DOMAIN pp_blocks \ Range(wf.createdBlocks)
                          |-> pp_blocks[b]]
                  ELSE pp_blocks
  /\ UNCHANGED <<codecVars, pp_pages, pp_versions, nextId, appVars>>

\* _fetch throws (the response is not ok, or the network fails): no workflow
\* of the API client catches it, and it ends the workflow at its caller;
\* except that loadPagesList catches the failure of its own request and
\* returns, and that the application's saveDraft catches every error of its
\* save, shows it and returns normally.
fetchThrows ==
  /\ req.op # "none"
  /\ pc \notin {"deletePage:loadPagesList", "createPage:loadPagesList"}
  /\ Continue(IF ResaveOfPublish(wf)
              THEN saveDraftReturns([wf EXCEPT !.error = "fetch"])
              ELSE Goto("failed", NoReq, [wf EXCEPT !.error = "fetch"]))
  /\ UNCHANGED <<codecVars, backendVars, appVars>>

\* A page as the page manager's createPage leaves it: page 1 with its
\* version 2 ("v1.0 - Draft", version number 1, status 1) and no block.
CreatedPage ==
  /\ pp_pages = (1 :> [pp_pageid |-> 1, pp_slug |-> "about-us"])
  /\ pp_versions = (2 :> [pp_versionid |-> 2, pageid |-> 1, pp_status |-> 1,
                          pp_versionnumber |-> 1])
  /\ pp_blocks = <<>>
  /\ nextId = 3

SaveInit ==
  /\ NoCodec
  /\ CreatedPage
  /\ NoClient

SaveNext ==
  \/ EditorAddComponent
  \/ updateBlock
  \/ saveDraft
  \/ deleteAllBlocksSort
  \/ deleteAllBlocksDeleted
  \/ saveDraftCreated
  \/ fetchThrows

SpecSave == SaveInit /\ [][SaveNext]_vars

\* C4 (saveDraft postcondition): once saveDraft(v, blocks) has completed,
\* version v holds exactly one stored block per record of blocks, with that
\* record's template name, sort order and settings, and none of the blocks
\* it held when the save started.
SaveDraftReplacesBlocks ==
  (pc = "done" /\ wf.name = "saveDraft") =>
    LET held == BlocksOfVersion(wf.versionId)
    IN /\ held \cap wf.before = {}
       /\ Cardinality(held) = Len(wf.blocks)
       /\ \E q \in Perms(held) :
            \A k \in 1..Len(wf.blocks) :
              /\ pp_blocks[q[k]].pp_type = wf.blocks[k].templateName
              /\ pp_blocks[q[k]].pp_order = wf.blocks[k].sortOrder
              /\ JSONparses(pp_blocks[q[k]].pp_data)
              /\ JSONparse(pp_blocks[q[k]].pp_data) = wf.blocks[k].settings

\* C5 (parent links on save): every createBlock request of a save that
\* carries a parent reference names a block row that exists when the request
\* is issued and belongs to the same version; and once the save has
\* completed, the stored parent of every block created for a nested
\* component is the block created for its parent component.
SaveDraftBindsStoredParents ==
  /\ (wf.name = "saveDraft" /\ req.op = "createBlock" /\ req.parentblockid # 0) =>
       /\ req.parentblockid \in DOMAIN pp_blocks
       /\ pp_blocks[req.parentblockid].versionid = req.versionid
  /\ (pc = "done" /\ wf.name = "saveDraft") =>
       \A k \in 1..Len(wf.blocks) :
         wf.blocks[k].parentBlockId # 0 =>
           \E j \in 1..Len(wf.blocks) :
             /\ wf.blocks[j].id = wf.blocks[k].parentBlockId
             /\ pp_blocks[wf.createdBlocks[k]].pp_parentblockid = wf.createdBlocks[j]



\* ------------------------------------------ versions, three-state client
\* getPages({filter: pp_slug eq slug ..., top: 1}).
getPagesRequest(slug) == [op |-> "getPages", slug |-> slug]

\* getPageVersions(pageId, options): status is the pp_status the filter
\* asks for (0: the filter names none), top the $top (0: none).
getPageVersionsRequest(pageId, status, orderby, top) ==
  [op |-> "getPageVersions", pageid |-> pageId, status |-> status,
   orderby |-> orderby, top |-> top]

\* getActivePageVersion(pageId)'s query.
getActivePageVersionRequest(pageId) ==
  getPageVersionsRequest(pageId, 0, "pp_status desc, pp_versionnumber desc", 1)

\* A mutant of getPublishedPageVersionRequest: the query asks for the Draft
\* versions.
getDraftPageVersionRequest(pageId) ==
  getPageVersionsRequest(pageId, Draft, "pp_versionnumber desc", 1)

\* getPublishedPageVersion(pageId)'s query.
getPublishedPageVersionRequest(pageId) ==
  getPageVersionsRequest(pageId, Published, "pp_versionnumber desc", 1)

\* updatePageVersion(versionId, {status}).
updatePageVersionRequest(versionId, status) ==
  [op |-> "updatePageVersion", id |-> versionId, pp_status |-> status]

\* createPageVersion(versionData): pp_status is versionData.status || 1.
createPageVersionRequest(pageId, versionNumber, status) ==
  [op |-> "createPageVersion", pageid |-> pageId,
   pp_versionnumber |-> versionNumber, pp_status |-> OrElse(status, Draft)]

createdVersionRow(versionId, request) ==
  [pp_versionid |-> versionId, pageid |-> request.pageid,
   pp_status |-> request.pp_status,
   pp_versionnumber |-> request.pp_versionnumber]

\* Row a comes strictly before row b under the $orderby.
versionBefore(orderby, a, b) ==
  IF orderby = "pp_status desc, pp_versionnumber desc"
  THEN \/ a.pp_status > b.pp_status
       \/ a.pp_status = b.pp_status /\ a.pp_versionnumber > b.pp_versionnumber
  ELSE a.pp_versionnumber > b.pp_versionnumber

\* The answers the backend may give to a getPageVersions request: the
\* matching rows in the order asked for, rows the order does not separate
\* in an order the backend chooses, cut to $top.
getPageVersionsResponses(request) ==
  LET matches == {v \in VersionsOfPage(request.pageid) :
                    request.status = 0 \/ pp_versions[v].pp_status = request.status}
      n == Cardinality(matches)
      listings == {q \in Perms(matches) :
                     \A i, j \in 1..n :
                       i < j => ~versionBefore(request.orderby, pp_versions[q[j]],
                                               pp_versions[q[i]])}
      top == IF request.top = 0 \/ request.top > n THEN n ELSE request.top
  IN {[i \in 1..top |-> pp_versions[q[i]]] : q \in listings}

\* getPageBySlug's answers: pages of that slug, at most one ($top 1).
getPagesResponses(request) ==
  LET matches == {p \in DOMAIN pp_pages : pp_pages[p].pp_slug = request.slug}
  IN IF matches = {} THEN {<<>>} ELSE {<<pp_pages[p]>> : p \in matches}

\* -- getActivePageVersion
\* getActivePageVersion(pageId) up to its await.
getActivePageVersion ==
  /\ Resting
  /\ \E pageId \in DOMAIN pp_pages :
       Start(Goto("getActivePageVersion:getPageVersions",
                  getActivePageVersionRequest(pageId),
                  [name |-> "getActivePageVersion", error |-> "",
                   pageId |-> pageId, versions |-> <<>>, answeredFrom |-> <<>>]))
  /\ UNCHANGED <<codecVars, backendVars, appVars>>

\* versions.length > 0 ? versions[0] : null.  answeredFrom keeps the
\* version rows the backend answered from.
getActivePageVersionReturns ==
  /\ pc = "getActivePageVersion:getPageVersions"
  /\ \E rows \in getPageVersionsResponses(req) :
       Continue(Goto("done", NoReq,
                     [wf EXCEPT !.versions = rows, !.answeredFrom = pp_versions]))
  /\ UNCHANGED <<codecVars, backendVars, appVars>>

\* -- loadPageForEditing
Slugs == {"about-us", "no-such-page"}

\* loadPageForEditing(pageSlug) up to its first await.
loadPageForEditing ==
  /\ Resting
  /\ \E pageSlug \in Slugs :
       Start(Goto("loadPageForEditing:getPageBySlug", getPagesRequest(pageSlug),
                  [name |-> "loadPageForEditing", error |-> "",
                   pageSlug |-> pageSlug, page |-> 0, answeredFrom |-> <<>>]))
  /\ UNCHANGED <<codecVars, backendVars, appVars>>

\* After getPageBySlug: no page throws 'Page not found'; otherwise the call
\* getActivePageVersion(page.pp_pageid) names no binding of the module (the
\* method is this.getActivePageVersion) and throws a ReferenceError before
\* any request is made.
loadPageForEditingThrows ==
  /\ pc = "loadPageForEditing:getPageBySlug"
  /\ \E rows \in getPagesResponses(req) :
       Continue(Goto("failed", NoReq,
                     IF rows = <<>>
                     THEN [wf EXCEPT !.error = "Page not found"]
                     ELSE [wf EXCEPT !.page = rows[1].pp_pageid,
                                     !.error = "ReferenceError",
                                     !.answeredFrom = pp_versions]))
  /\ UNCHANGED <<codecVars, backendVars, appVars>>

\* -- publishPage
\* The loops of publishPage over draftBlocks: the rows without a parent,
\* then the rows with one.
cloneOrder(draftBlocks) ==
  LET isRoot(b) == b.pp_parentblockid = 0
      isChild(b) == b.pp_parentblockid # 0
  IN SelectSeq(draftBlocks, isRoot) \o SelectSeq(draftBlocks, isChild)

\* blockIdMap[oldId], undefined when the map has no such key.
mapped(blockIdMap, oldId) ==
  IF oldId \in DOMAIN blockIdMap THEN blockIdMap[oldId] ELSE 0

\* The next createBlock of the clone loops, or the return.  JSON.parse of a
\* stored pp_data that is no JSON throws.
publishPageNext(w) ==
  LET order == cloneOrder(w.draftBlocks)
  IN IF w.cloned < Len(order)
     THEN LET draftBlock == order[w.cloned + 1]
          IN IF draftBlock.pp_data # "" /\ ~JSONparses(draftBlock.pp_data)
             THEN Goto("failed", NoReq, [w EXCEPT !.error = "SyntaxError"])
             ELSE Goto("publishPage:createBlock",
                       createBlockRequest(
                         [pageversionId |-> w.publishedVersion,
                          parentBlockId |-> mapped(w.blockIdMap,
                                                   draftBlock.pp_parentblockid),
                          templateName |-> draftBlock.pp_type,
                          blockType |-> draftBlock.pp_blocktype,
                          sortOrder |-> draftBlock.pp_order,
                          settings |-> IF draftBlock.pp_data # ""
                                       THEN JSONparse(draftBlock.pp_data)
                                       ELSE EmptySettings,
                          isActive |-> draftBlock.pp_isactive]),
                       w)
     ELSE Goto("done", NoReq, w)

\* A mutant of archiveRequest: the row found Published keeps its status.
archiveRequestUnchanged(versionId) == updatePageVersionRequest(versionId, Published)

\* A mutant of archiveRequest: the row found Published is set back to Draft.
archiveRequestToDraft(versionId) == updatePageVersionRequest(versionId, Draft)

\* The request that archives the version publishPage found Published.
archiveRequest(versionId) == updatePageVersionRequest(versionId, Archived)

\* publishPage(pageId, draftVersionId) up to its first await, called while
\* the tables have room for its rows within the given number of rows.
publishPageWithin(rows) ==
  /\ Resting
  /\ \E pageId \in DOMAIN pp_pages :
       \E draftVersionId \in VersionsOfPage(pageId) :
         /\ nextId + 1 + Cardinality(BlocksOfVersion(draftVersionId)) <= rows + 1
         /\ Start(Goto("publishPage:getVersion", getVersionRequest(draftVersionId),
                       publishPageLocals(pageId, draftVersionId)))
  /\ UNCHANGED <<codecVars, backendVars, appVars>>

publishPage == publishPageWithin(MaxRows)

publishPageGotVersion ==
  /\ pc = "publishPage:getVersion"
  /\ req.id \in DOMAIN pp_versions
  /\ Continue(Goto("publishPage:getBlocks", getBlocksRequest(wf.draftVersionId),
                   [wf EXCEPT !.draftVersion = pp_versions[req.id]]))
  /\ UNCHANGED <<codecVars, backendVars, appVars>>

publishPageGotBlocks ==
  /\ pc = "publishPage:getBlocks"
  /\ \E rows \in getBlocksResponses(req.versionid) :
       Continue(Goto("publishPage:getPublishedPageVersion",
                     getPublishedPageVersionRequest(wf.pageId),
                     [wf EXCEPT !.draftBlocks = rows]))
  /\ UNCHANGED <<codecVars, backendVars, appVars>>

\* After getPublishedPageVersion: archive the row it found, or go straight
\* to creating the new Published row.
publishPageGotPublished ==
  /\ pc = "publishPage:getPublishedPageVersion"
  /\ \E rows \in getPageVersionsResponses(req) :
       Continue(IF rows # <<>>
                THEN Goto("publishPage:updatePageVersion",
                          archiveRequest(rows[1].pp_versionid), wf)
                ELSE Goto("publishPage:createPageVersion",
                          createPageVersionRequest(wf.pageId,
                            wf.draftVersion.pp_versionnumber, Published),
                          wf))
  /\ UNCHANGED <<codecVars, backendVars, appVars>>

publishPageArchived ==
  /\ pc = "publishPage:updatePageVersion"
  /\ req.id \in DOMAIN pp_versions
  /\ pp_versions' = [pp_versions EXCEPT ![req.id].pp_status = req.pp_status]
  /\ Continue(Goto("publishPage:createPageVersion",
                   createPageVersionRequest(wf.pageId,
                     wf.draftVersion.pp_versionnumber, Published),
                   wf))
  /\ UNCHANGED <<codecVars, pp_pages, pp_blocks, nextId, appVars>>

publishPageCreatedVersion ==
  /\ pc = "publishPage:createPageVersion"
  /\ req.pageid \in DOMAIN pp_pages
  /\ pp_versions' = pp_versions @@ (nextId :> createdVersionRow(nextId, req))
  /\ nextId' = nextId + 1
  /\ Continue(publishPageNext([wf EXCEPT !.publishedVersion = nextId]))
  /\ UNCHANGED <<codecVars, pp_pages, pp_blocks, appVars>>

publishPageCreatedBlock ==
  /\ pc = "publishPage:createBlock"
  /\ req.versionid \in DOMAIN pp_versions
  /\ pp_blocks' = pp_blocks @@ (nextId :> createdBlockRow(nextId, req))
  /\ nextId' = nextId + 1
  /\ LET draftBlock == cloneOrder(wf.draftBlocks)[wf.cloned + 1]
     IN Continue(publishPageNext(
          [wf EXCEPT !.cloned = @ + 1,
                     !.blockIdMap = (draftBlock.pp_blockid :> nextId) @@ @]))
  /\ UNCHANGED <<codecVars, pp_pages, pp_versions, appVars>>

\* -- single calls of the API that fill the tables
\* createPageVersion({pageId, versionNumber, status: 1}): the next draft of
\* a page.
createPageVersion ==
  /\ Resting
  /\ nextId <= MaxRows
  /\ \E pageId \in DOMAIN pp_pages :
       LET numbers == {pp_versions[v].pp_versionnumber : v \in VersionsOfPage(pageId)}
           versionNumber == IF numbers = {} THEN 1
                            ELSE 1 + CHOOSE m \in numbers : \A k \in numbers : k <= m
       IN pp_versions' = pp_versions @@
            (nextId :> createdVersionRow(nextId,
                         createPageVersionRequest(pageId, versionNumber, Draft)))
  /\ nextId' = nextId + 1
  /\ UNCHANGED <<codecVars, pp_pages, pp_blocks, clientVars>>

\* createBlock(blockData) for one more block of a version, at the top level
\* or under a block the version holds.
createBlock ==
  /\ Resting
  /\ nextId <= MaxRows
  /\ \E versionId \in DOMAIN pp_versions, kind \in ComponentKinds :
       \E parentBlockId \in {0} \cup BlocksOfVersion(versionId) :
         pp_blocks' = pp_blocks @@
           (nextId :> createdBlockRow(nextId,
              createBlockRequest(
                [pageversionId |-> versionId, parentBlockId |-> parentBlockId,
                 templateName |-> kind.type,
                 blockType |-> getBlockTypeFromTemplate(kind.type),
                 sortOrder |-> Cardinality(BlocksOfVersion(versionId)),
                 settings |-> kind.traits, isActive |-> TRUE])))
  /\ nextId' = nextId + 1
  /\ UNCHANGED <<codecVars, pp_pages, pp_versions, clientVars>>

PublishInit ==
  /\ NoCodec
  /\ CreatedPage
  /\ NoClient

PublishNext ==
  \/ createPageVersion
  \/ createBlock
  \/ getActivePageVersion
  \/ getActivePageVersionReturns
  \/ loadPageForEditing
  \/ loadPageForEditingThrows
  \/ publishPage
  \/ publishPageGotVersion
  \/ publishPageGotBlocks
  \/ publishPageGotPublished
  \/ publishPageArchived
  \/ publishPageCreatedVersion
  \/ publishPageCreatedBlock
  \/ fetchThrows

SpecPublish == PublishInit /\ [][PublishNext]_vars


\* C6 (load for editing): for a slug that identifies a page with at least
\* one version, and no request failing, loadPageForEditing issues the page
\* lookup, the active-version lookup and the block fetch, in this order, and
\* completes successfully.
LoadForEditingCompletes ==
  ( /\ wf.name = "loadPageForEditing"
    /\ Resting
    /\ wf.error # "fetch"
    /\ wf.page # 0
    /\ \E v \in DOMAIN wf.answeredFrom : wf.answeredFrom[v].pageid = wf.page ) =>
      /\ pc = "done"
      /\ [i \in 1..Len(issued) |-> issued[i].op]
           = <<"getPages", "getPageVersions", "getBlocks">>

\* C7 (active version selection): getActivePageVersion(page) returns a
\* Published version when the page has one, otherwise its most recent Draft
\* version; among versions of equal state the most recent one; and never an
\* Archived version while the page has a Published or Draft one.
ActiveVersionIsPublishedElseDraft ==
  (pc = "done" /\ wf.name = "getActivePageVersion") =>
    LET rows == {wf.answeredFrom[v] :
                   v \in {u \in DOMAIN wf.answeredFrom :
                            wf.answeredFrom[u].pageid = wf.pageId}}
        inState(status) == {r \in rows : r.pp_status = status}
        newest(set, r) ==
          r \in set /\ \A o \in set : o.pp_versionnumber <= r.pp_versionnumber
    IN rows # {} =>
         /\ Len(wf.versions) = 1
         /\ inState(Published) # {} => newest(inState(Published), wf.versions[1])
         /\ (inState(Published) = {} /\ inState(Draft) # {}) =>
              newest(inState(Draft), wf.versions[1])
         /\ (inState(Published) \cup inState(Draft)) # {} =>
              wf.versions[1].pp_status # Archived

PublishedOfPage(pageId) ==
  {v \in VersionsOfPage(pageId) : pp_versions[v].pp_status = Published}

\* C9 (full-clone publish invariant): after every completed
\* publishPage(page, draft), the rows that were Published before the call are
\* Archived, a row created by the call is Published, and it is the only
\* Published version of the page.
PublishArchivesThePublished ==
  (pc = "done" /\ wf.name = "publishPage") =>
    /\ \A v \in wf.publishedBefore : pp_versions[v].pp_status = Archived
    /\ \E created \in VersionsOfPage(wf.pageId) \ wf.versionsBefore :
         PublishedOfPage(wf.pageId) = {created}

\* A publish has completed on a page that had a Published version, which is
\* Archived now, next to more than one version that is not Published.
PublishWitness ==
  /\ pc = "done"
  /\ wf.name = "publishPage"
  /\ wf.publishedBefore # {}
  /\ \A v \in wf.publishedBefore : pp_versions[v].pp_status = Archived
  /\ Cardinality(VersionsOfPage(wf.pageId)) >= 3


\* ------------------------------------------- the page manager's deletePage
\* getPageVersions(pageId) with its defaults.
getAllPageVersionsRequest(pageId) ==
  getPageVersionsRequest(pageId, 0, "pp_versionnumber desc", 0)

deletePageRequest(pageId) == [op |-> "deletePage", id |-> pageId]

\* loadPagesList's getPages({orderby: 'pp_title'}).
getPagesListRequest == [op |-> "getPages", slug |-> ""]

\* deletePage's loop over versions: deleteAllBlocks of the next version, or
\* the page's delete.
deletePageNext(w) ==
  IF w.versionsDeleted < Len(w.versions)
  THEN Goto("deleteAllBlocks:getBlocks",
            getBlocksRequest(w.versions[w.versionsDeleted + 1].pp_versionid), w)
  ELSE Goto("deletePage:deletePage", deletePageRequest(w.pageId), w)

\* deletePage(pageId, pageName) up to its first await: nothing happens
\* unless the user confirms.  versionsBefore and blocksBefore are the version
\* rows of the page and the version of each of their block rows when the
\* workflow starts.
deletePage ==
  /\ Resting
  /\ \E pageId \in DOMAIN pp_pages, confirmed \in BOOLEAN :
       LET w == [name |-> "deletePage", error |-> "", confirmed |-> confirmed,
                 pageId |-> pageId, versions |-> <<>>, versionsDeleted |-> 0,
                 sortedBlocks |-> <<>>, deleted |-> 0,
                 versionsBefore |-> VersionsOfPage(pageId),
                 blocksBefore |->
                   [b \in {c \in DOMAIN pp_blocks :
                             pp_blocks[c].versionid \in VersionsOfPage(pageId)}
                      |-> pp_blocks[b].versionid]]
       IN IF confirmed
          THEN Start(Goto("deletePage:getPageVersions",
                          getAllPageVersionsRequest(pageId), w))
          ELSE pc' = "done" /\ req' = NoReq /\ wf' = w /\ issued' = <<>>
  /\ UNCHANGED <<codecVars, backendVars, appVars>>

deletePageGotVersions ==
  /\ pc = "deletePage:getPageVersions"
  /\ \E rows \in getPageVersionsResponses(req) :
       Continue(deletePageNext([wf EXCEPT !.versions = rows]))
  /\ UNCHANGED <<codecVars, backendVars, appVars>>

\* The backend deletes the version row; deletePage goes on.
deletePageDeletedVersion ==
  /\ pc = "deletePage:deletePageVersion"
  /\ req.id \in DOMAIN pp_versions
  /\ pp_versions' = [v \in DOMAIN pp_versions \ {req.id} |-> pp_versions[v]]
  /\ Continue(deletePageNext([wf EXCEPT !.versionsDeleted = @ + 1]))
  /\ UNCHANGED <<codecVars, pp_pages, pp_blocks, nextId, appVars>>

\* The backend deletes the page row; deletePage awaits loadPagesList.
deletePageDeletedPage ==
  /\ pc = "deletePage:deletePage"
  /\ req.id \in DOMAIN pp_pages
  /\ pp_pages' = [q \in DOMAIN pp_pages \ {req.id} |-> pp_pages[q]]
  /\ Continue(Goto("deletePage:loadPagesList", getPagesListRequest, wf))
  /\ UNCHANGED <<codecVars, pp_versions, pp_blocks, nextId, appVars>>

\* loadPagesList returns, having caught a failure of its request if there
\* was one; deletePage clears the editor if the page was the current one.
deletePageListed ==
  /\ pc = "deletePage:loadPagesList"
  /\ Continue(Goto("done", NoReq, wf))
  /\ IF currentPage = wf.pageId
     THEN /\ editor' = NoForest
          /\ currentPage' = 0
          /\ currentVersion' = 0
          /\ UNCHANGED <<sessions, isDirty>>
     ELSE UNCHANGED appVars
  /\ UNCHANGED <<codecVars, backendVars>>

DeleteInit ==
  /\ NoCodec
  /\ CreatedPage
  /\ NoClient

DeleteNext ==
  \/ createPageVersion
  \/ createBlock
  \/ updateBlock
  \/ deletePage
  \/ deletePageGotVersions
  \/ deleteAllBlocksSort
  \/ deleteAllBlocksDeleted
  \/ deletePageDeletedVersion
  \/ deletePageDeletedPage
  \/ deletePageListed
  \/ fetchThrows

SpecDelete == DeleteInit /\ [][DeleteNext]_vars

\* C10 (cascading delete): a confirmed deletePage that completes has issued
\* one block-delete per block of the page's versions, one version-delete per
\* version and one page-delete; every block-delete of a version comes before
\* that version's delete, and the page-delete after every version-delete.
DeletePageIssuesCascade ==
  (pc = "done" /\ wf.name = "deletePage" /\ wf.confirmed) =>
    LET at(op) == {i \in 1..Len(issued) : issued[i].op = op}
    IN /\ Cardinality(at("deleteBlock")) = Cardinality(DOMAIN wf.blocksBefore)
       /\ Cardinality(at("deletePageVersion")) = Cardinality(wf.versionsBefore)
       /\ Cardinality(at("deletePage")) = 1
       /\ \A b \in DOMAIN wf.blocksBefore :
            \E i \in at("deleteBlock"), j \in at("deletePageVersion") :
              /\ issued[i].id = b
              /\ issued[j].id = wf.blocksBefore[b]
              /\ i < j
       /\ \A j \in at("deletePageVersion"), k \in at("deletePage") : j < k


\* -------------------------------------------------- the two-state client
\* pp_state of the two-state client (blocks/media-blocks.js).
DraftState == 125600000

PublishedState == 125600001

\* GET pp_blocks?$filter=_pp_versionid_value eq versionId&$orderby=pp_order
\* of the two-state client: every row of the version.
getBlocksSimpleResponses(versionId) ==
  LET matches == BlocksOfVersion(versionId)
      listings == {q \in Perms(matches) :
                     \A i, j \in 1..Cardinality(matches) :
                       i < j => pp_blocks[q[i]].pp_order <= pp_blocks[q[j]].pp_order}
  IN {[i \in 1..Cardinality(matches) |-> pp_blocks[q[i]]] : q \in listings}

\* updatePageVersion(versionId, {state}) of the two-state client.
updatePageVersionSimpleRequest(versionId, state) ==
  [op |-> "updatePageVersion", id |-> versionId, pp_state |-> state]

\* createPageVersion(versionData) of the two-state client: pp_state is
\* versionData.state || 125600000.
createPageVersionSimpleRequest(pageId, state) ==
  [op |-> "createPageVersion", pageid |-> pageId,
   pp_state |-> OrElse(state, DraftState)]

\* The version row the backend stores; pp_createdon is the backend's clock,
\* which the identifiers follow.
createdVersionSimpleRow(versionId, request) ==
  [pp_versionid |-> versionId, pageid |-> request.pageid,
   pp_state |-> request.pp_state, pp_createdon |-> versionId]

\* createBlock(blockData) of the two-state client: no pp_isactive.
createBlockSimpleRequest(blockData) ==
  [op |-> "createBlock",
   versionid |-> blockData.pageversionId,
   parentblockid |-> blockData.parentBlockId,
   pp_type |-> blockData.templateName,
   pp_blocktype |-> blockData.blockType,
   pp_order |-> IF blockData.sortOrder = Undef THEN 0 ELSE blockData.sortOrder,
   pp_data |-> JSONstringify(blockData.settings)]

createdBlockSimpleRow(blockId, request) ==
  [pp_blockid |-> blockId,
   versionid |-> request.versionid,
   pp_parentblockid |-> request.parentblockid,
   pp_type |-> request.pp_type,
   pp_blocktype |-> request.pp_blocktype,
   pp_order |-> request.pp_order,
   pp_data |-> request.pp_data]

\* -- publishPage, two-state
\* publishPage(pageId, draftVersionId) up to its first await.
publishPageSimple ==
  /\ Resting
  /\ \E pageId \in DOMAIN pp_pages :
       \E draftVersionId \in VersionsOfPage(pageId) :
         Start(Goto("publishPageSimple:getVersion", getVersionRequest(draftVersionId),
                    [name |-> "publishPageSimple", error |-> "",
                     pageId |-> pageId, draftVersionId |-> draftVersionId,
                     draftVersion |-> <<>>, draftBlocks |-> <<>>]))
  /\ UNCHANGED <<codecVars, backendVars, appVars>>

publishPageSimpleGotVersion ==
  /\ pc = "publishPageSimple:getVersion"
  /\ req.id \in DOMAIN pp_versions
  /\ Continue(Goto("publishPageSimple:getBlocks", getBlocksRequest(wf.draftVersionId),
                   [wf EXCEPT !.draftVersion = pp_versions[req.id]]))
  /\ UNCHANGED <<codecVars, backendVars, appVars>>

publishPageSimpleGotBlocks ==
  /\ pc = "publishPageSimple:getBlocks"
  /\ \E rows \in getBlocksSimpleResponses(req.versionid) :
       Continue(Goto("publishPageSimple:updatePageVersion",
                     updatePageVersionSimpleRequest(wf.draftVersionId, PublishedState),
                     [wf EXCEPT !.draftBlocks = rows]))
  /\ UNCHANGED <<codecVars, backendVars, appVars>>

\* The backend sets the state of the version row; publishPage returns.
publishPageSimpleUpdated ==
  /\ pc = "publishPageSimple:updatePageVersion"
  /\ req.id \in DOMAIN pp_versions
  /\ pp_versions' = [pp_versions EXCEPT ![req.id].pp_state = req.pp_state]
  /\ Continue(Goto("done", NoReq, wf))
  /\ UNCHANGED <<codecVars, pp_pages, pp_blocks, nextId, appVars>>

\* -- cloneVersion
\* The next createBlock of cloneVersion's loops, or the return.  The loops
\* read newVersion.pp_VersionId and sourceBlock.pp_BlockId, which are no
\* fields of the rows the backend answers with (pp_versionid, pp_blockid):
\* both are undefined.
cloneVersionNext(w) ==
  LET order == cloneOrder(w.sourceBlocks)
  IN IF w.cloned < Len(order)
     THEN LET sourceBlock == order[w.cloned + 1]
          IN IF sourceBlock.pp_data # "" /\ ~JSONparses(sourceBlock.pp_data)
             THEN Goto("failed", NoReq, [w EXCEPT !.error = "SyntaxError"])
             ELSE Goto("cloneVersion:createBlock",
                       createBlockSimpleRequest(
                         [pageversionId |-> 0,
                          parentBlockId |-> mapped(w.blockIdMap,
                                                   sourceBlock.pp_parentblockid),
                          templateName |-> sourceBlock.pp_type,
                          blockType |-> sourceBlock.pp_blocktype,
                          sortOrder |-> sourceBlock.pp_order,
                          settings |-> IF sourceBlock.pp_data # ""
                                       THEN JSONparse(sourceBlock.pp_data)
                                       ELSE EmptySettings]),
                       w)
     ELSE Goto("done", NoReq, w)

\* cloneVersion(sourceVersionId, pageId) up to its first await.
cloneVersion ==
  /\ Resting
  /\ nextId <= MaxRows
  /\ \E pageId \in DOMAIN pp_pages :
       \E sourceVersionId \in VersionsOfPage(pageId) :
         Start(Goto("cloneVersion:getVersion", getVersionRequest(sourceVersionId),
                    [name |-> "cloneVersion", error |-> "",
                     pageId |-> pageId, sourceVersionId |-> sourceVersionId,
                     sourceVersion |-> <<>>, sourceBlocks |-> <<>>,
                     cloned |-> 0, blockIdMap |-> <<>>]))
  /\ UNCHANGED <<codecVars, backendVars, appVars>>

cloneVersionGotVersion ==
  /\ pc = "cloneVersion:getVersion"
  /\ req.id \in DOMAIN pp_versions
  /\ Continue(Goto("cloneVersion:getBlocks", getBlocksRequest(wf.sourceVersionId),
                   [wf EXCEPT !.sourceVersion = pp_versions[req.id]]))
  /\ UNCHANGED <<codecVars, backendVars, appVars>>

cloneVersionGotBlocks ==
  /\ pc = "cloneVersion:getBlocks"
  /\ \E rows \in getBlocksSimpleResponses(req.versionid) :
       Continue(Goto("cloneVersion:createPageVersion",
                     createPageVersionSimpleRequest(wf.pageId, DraftState),
                     [wf EXCEPT !.sourceBlocks = rows]))
  /\ UNCHANGED <<codecVars, backendVars, appVars>>

\* The backend stores the new Draft version row; the block loops start.  A
\* createBlock they issue is bound to pp_versions(undefined), which the
\* backend cannot accept: only fetchThrows answers it.
cloneVersionCreatedVersion ==
  /\ pc = "cloneVersion:createPageVersion"
  /\ req.pageid \in DOMAIN pp_pages
  /\ pp_versions' = pp_versions @@ (nextId :> createdVersionSimpleRow(nextId, req))
  /\ nextId' = nextId + 1
  /\ Continue(cloneVersionNext(wf))
  /\ UNCHANGED <<codecVars, pp_pages, pp_blocks, appVars>>

\* createBlock(blockData) of the two-state client for one more block of a
\* version.
createBlockSimple ==
  /\ Resting
  /\ nextId <= MaxRows
  /\ \E versionId \in DOMAIN pp_versions, kind \in ComponentKinds :
       \E parentBlockId \in {0} \cup BlocksOfVersion(versionId) :
         pp_blocks' = pp_blocks @@
           (nextId :> createdBlockSimpleRow(nextId,
              createBlockSimpleRequest(
                [pageversionId |-> versionId, parentBlockId |-> parentBlockId,
                 templateName |-> kind.type,
                 blockType |-> getBlockTypeFromTemplate(kind.type),
                 sortOrder |-> Cardinality(BlocksOfVersion(versionId)),
                 settings |-> kind.traits])))
  /\ nextId' = nextId + 1
  /\ UNCHANGED <<codecVars, pp_pages, pp_versions, clientVars>>

\* A page as page creation leaves it with the two-state client: page 1 with
\* its version 2 in the Draft state and no block.
SimpleInit ==
  /\ NoCodec
  /\ pp_pages = (1 :> [pp_pageid |-> 1, pp_slug |-> "about-us"])
  /\ pp_versions = (2 :> createdVersionSimpleRow(2,
                            createPageVersionSimpleRequest(1, 0)))
  /\ pp_blocks = <<>>
  /\ nextId = 3
  /\ NoClient

SimpleNext ==
  \/ createBlockSimple
  \/ publishPageSimple
  \/ publishPageSimpleGotVersion
  \/ publishPageSimpleGotBlocks
  \/ publishPageSimpleUpdated
  \/ cloneVersion
  \/ cloneVersionGotVersion
  \/ cloneVersionGotBlocks
  \/ cloneVersionCreatedVersion
  \/ fetchThrows

SpecSimple == SimpleInit /\ [][SimpleNext]_vars

PublishedSimpleOfPage(pageId) ==
  {v \in VersionsOfPage(pageId) : pp_versions[v].pp_state = PublishedState}

\* C8 (simple-variant publish invariant): after page creation, version clones
\* and publishPage calls of the two-state client on versions of one page, no
\* page has more than one version row in the Published state, and a page has
\* exactly one when a publishPage on it has just completed.
SimplePublishKeepsOnePublished ==
  /\ \A pageId \in DOMAIN pp_pages : Cardinality(PublishedSimpleOfPage(pageId)) <= 1
  /\ (pc = "done" /\ wf.name = "publishPageSimple") =>
       Cardinality(PublishedSimpleOfPage(wf.pageId)) = 1


\* C11 (no version is deleted while it still has blocks): whenever deletePage
\* issues the delete request for a version, no block row of that version,
\* whatever its active flag, remains in the backend.
VersionDeleteFindsNoBlocks ==
  (wf.name = "deletePage" /\ req.op = "deletePageVersion") =>
    BlocksOfVersion(req.id) = {}


\* ------------------------------------- the workflows of either deployment
\* Which client a deployment runs follows the state model of its backend:
\* version rows carry pp_status (three-state) or pp_state (two-state).
ThreeStateSchema ==
  \A v \in DOMAIN pp_versions : "pp_status" \in DOMAIN pp_versions[v]

TwoStateSchema ==
  \A v \in DOMAIN pp_versions : "pp_state" \in DOMAIN pp_versions[v]

LifecycleInit == PublishInit \/ SimpleInit

\* The load, save-draft and publish workflows of the client the deployment
\* runs (with the editing and the cloning that feed them).
LifecycleNext ==
  \/ ThreeStateSchema /\ EditorAddComponent
  \/ ThreeStateSchema /\ loadPageForEditing
  \/ ThreeStateSchema /\ loadPageForEditingThrows
  \/ ThreeStateSchema /\ saveDraft
  \/ ThreeStateSchema /\ deleteAllBlocksSort
  \/ ThreeStateSchema /\ deleteAllBlocksDeleted
  \/ ThreeStateSchema /\ saveDraftCreated
  \/ ThreeStateSchema /\ publishPage
  \/ ThreeStateSchema /\ publishPageGotVersion
  \/ ThreeStateSchema /\ publishPageGotBlocks
  \/ ThreeStateSchema /\ publishPageGotPublished
  \/ ThreeStateSchema /\ publishPageArchived
  \/ ThreeStateSchema /\ publishPageCreatedVersion
  \/ ThreeStateSchema /\ publishPageCreatedBlock
  \/ TwoStateSchema /\ publishPageSimple
  \/ TwoStateSchema /\ publishPageSimpleGotVersion
  \/ TwoStateSchema /\ publishPageSimpleGotBlocks
  \/ TwoStateSchema /\ publishPageSimpleUpdated
  \/ TwoStateSchema /\ cloneVersion
  \/ TwoStateSchema /\ cloneVersionGotVersion
  \/ TwoStateSchema /\ cloneVersionGotBlocks
  \/ TwoStateSchema /\ cloneVersionCreatedVersion
  \/ fetchThrows

SpecLifecycle == LifecycleInit /\ [][LifecycleNext]_vars

\* The state of a version row of either schema, on the three-state scale.
VersionState(row) ==
  IF "pp_status" \in DOMAIN row THEN row.pp_status
  ELSE IF row.pp_state = PublishedState THEN Published
  ELSE Draft

\* C12 (version state machine): every step of a load, save-draft or publish
\* workflow that changes the state of an existing version row moves it from
\* Draft to Published or from Published to Archived; no step changes the
\* state of an Archived row or moves a Published row back to Draft.
VersionStateMovesForward ==
  [][\A v \in DOMAIN pp_versions \cap DOMAIN pp_versions' :
       VersionState(pp_versions[v]) # VersionState(pp_versions'[v]) =>
         \/ /\ VersionState(pp_versions[v]) = Draft
            /\ VersionState(pp_versions'[v]) = Published
         \/ /\ VersionState(pp_versions[v]) = Published
            /\ VersionState(pp_versions'[v]) = Archived]_vars

\* A publish of the three-state client has archived a row, next to a Draft
\* and a Published one.
VersionStateWitness ==
  /\ \E v \in DOMAIN pp_versions : VersionState(pp_versions[v]) = Archived
  /\ \E v \in DOMAIN pp_versions : VersionState(pp_versions[v]) = Published
  /\ \E v \in DOMAIN pp_versions : VersionState(pp_versions[v]) = Draft
  /\ pc = "done"
  /\ wf.name = "publishPage"


\* -------------------------------------------------------- the application
\* validateBlocks(blocks).valid: every block has a templateName, a blockType
\* and a sortOrder.
validateBlocks(blocks) ==
  \A i \in DOMAIN blocks :
    /\ blocks[i].templateName # ""
    /\ blocks[i].blockType # Undef
    /\ blocks[i].sortOrder # Undef

\* The user drops a plain element on the canvas: a component whose type is
\* the empty string, so that its block has no templateName.
EditorAddElement ==
  /\ Resting
  /\ Len(editor.heap) < MaxComponents
  /\ editor' = [roots |-> Append(editor.roots, Len(editor.heap) + 1),
                heap |-> Append(editor.heap,
                                [type |-> "", blockId |-> 0, dataSettings |-> "",
                                 traits |-> EmptySettings, content |-> "",
                                 components |-> <<>>])]
  /\ isDirty' = TRUE
  /\ UNCHANGED <<codecVars, backendVars, currentPage, currentVersion, sessions,
                 pc, wf, req, issued>>

\* The application object is exported as window.PPBuilder: the hosting page
\* sets its currentPage and currentVersion to a page and one of its versions.
\* (The application's own loadPage does not get to set them, since
\* loadPageForEditing throws before it returns.)
setCurrentVersion ==
  /\ Resting
  /\ \E pageId \in DOMAIN pp_pages :
       \E versionId \in VersionsOfPage(pageId) :
         /\ currentPage' = pageId
         /\ currentVersion' = versionId
  /\ UNCHANGED <<codecVars, backendVars, editor, sessions, isDirty,
                 pc, wf, req, issued>>

\* The application handler ends without having issued a request.  input
\* and backendBefore keep what it was given and the tables as it found them.
appReturns(handler, error, input) ==
  /\ pc' = IF error = "" THEN "done" ELSE "failed"
  /\ req' = NoReq
  /\ wf' = [name |-> handler, app |-> handler, error |-> error, input |-> input,
            backendBefore |-> <<pp_pages, pp_versions, pp_blocks>>]
  /\ issued' = <<>>

\* The locals of the save the application handler app starts.
appSaveLocals(app, blocks) ==
  [name |-> "saveDraft", error |-> "", versionId |-> currentVersion,
   blocks |-> blocks, sortedBlocks |-> <<>>, deleted |-> 0,
   createdBlocks |-> <<>>,
   before |-> {b \in DOMAIN pp_blocks : pp_blocks[b].versionid = currentVersion},
   app |-> app, pageId |-> currentPage, versionsAtStart |-> pp_versions]

\* The application's saveDraft(silent), up to its first await or its return:
\* it returns at once when no version is loaded, and its catch shows a
\* validation error without a request having been made.
appSaveDraft ==
  /\ Resting
  /\ IF currentVersion = 0
     THEN appReturns("saveDraft", "No page loaded", <<>>)
     ELSE LET made == grapesJSToDataverse(editor, currentVersion, 0)
          IN IF ~validateBlocks(made.blocks)
             THEN appReturns("saveDraft", "Invalid blocks", made.blocks)
             ELSE /\ nextId + Len(made.blocks) <= MaxRows + 1
                  /\ Start(Goto("deleteAllBlocks:getBlocks",
                                getBlocksRequest(currentVersion),
                                appSaveLocals("saveDraft", made.blocks)))
  /\ UNCHANGED <<codecVars, backendVars, appVars>>

\* The application's publishPage, up to its first await or its return: it
\* returns at once when no page is loaded or the user does not confirm;
\* else it awaits saveDraft(true), whose catch has already returned when the
\* blocks are not valid.
appPublishPage ==
  /\ Resting
  /\ IF currentPage = 0 \/ currentVersion = 0
     THEN appReturns("publishPage", "No page loaded", <<>>)
     ELSE \E confirmed \in BOOLEAN :
            IF ~confirmed
            THEN appReturns("publishPage", "", <<>>)
            ELSE LET made == grapesJSToDataverse(editor, currentVersion, 0)
                     w == appSaveLocals("publishPage", made.blocks)
                     stored == Cardinality(BlocksOfVersion(currentVersion))
                 IN /\ nextId + 2 * Len(made.blocks) + stored + 1 <= MaxRows + 1
                    /\ Start(IF validateBlocks(made.blocks)
                             THEN Goto("deleteAllBlocks:getBlocks",
                                       getBlocksRequest(currentVersion), w)
                             ELSE saveDraftReturns(
                                    [w EXCEPT !.error = "Invalid blocks"]))
  /\ UNCHANGED <<codecVars, backendVars, appVars>>

AppInit == PublishInit

AppNext ==
  \/ EditorAddComponent
  \/ EditorAddElement
  \/ setCurrentVersion
  \/ appSaveDraft
  \/ appPublishPage
  \/ deleteAllBlocksSort
  \/ deleteAllBlocksDeleted
  \/ saveDraftCreated
  \/ publishPageGotVersion
  \/ publishPageGotBlocks
  \/ publishPageGotPublished
  \/ publishPageArchived
  \/ publishPageCreatedVersion
  \/ publishPageCreatedBlock
  \/ fetchThrows

SpecApp == AppInit /\ [][AppNext]_vars

\* The requests that only apiClient.publishPage issues.
PublishRequestIssued ==
  \E i \in DOMAIN issued : issued[i].op = "getVersion"

\* C13 (publish re-saves first): in the application's publishPage, when a
\* request of the draft re-save has failed, the workflow ends there: no
\* request of apiClient.publishPage is issued and no version row changes.
FailedResaveStopsPublish ==
  ("resave" \in DOMAIN wf /\ wf.resave = "fetch") =>
    /\ ~PublishRequestIssued
    /\ pp_versions = wf.versionsAtStart


\* -------------------------------------------------------- concurrent saves
\* The auto-save timer calls saveDraft every 60 seconds whether or not a
\* save of the user is still awaiting a response, so saves of one version
\* overlap; each awaits its own requests, which the backend handles one at
\* a time in any order.
Sessions == {"user", "autoSave"}

\* Block rows the running saves will still create.
PendingCreates ==
  LET pending(s) == IF sessions[s].pc \in {"idle", "done", "failed"} THEN 0
                    ELSE Len(sessions[s].wf.blocks)
                         - Len(sessions[s].wf.createdBlocks)
  IN pending("user") + pending("autoSave")

\* Save s goes on as next says; last marks the save that returned last.
SessionGoes(s, next) ==
  /\ sessions' =
       [t \in Sessions |->
          IF t = s THEN [pc |-> next.pc, req |-> next.req, wf |-> next.wf,
                         last |-> next.pc = "done"]
          ELSE IF next.pc = "done" THEN [sessions[t] EXCEPT !.last = FALSE]
          ELSE sessions[t]]
  /\ isDirty' = IF Saved(sessions[s].wf, next) THEN FALSE ELSE isDirty

\* apiClient.saveDraft(versionId, blocks) of save s, with the blocks of the
\* editor as they are now, up to its first await.
saveDraftIn(s) ==
  /\ sessions[s].pc \in {"idle", "done", "failed"}
  /\ \E versionId \in DOMAIN pp_versions :
       LET made == grapesJSToDataverse(editor, versionId, 0)
       IN /\ nextId + PendingCreates + Len(made.blocks) <= MaxRows + 1
          /\ SessionGoes(s, Goto("deleteAllBlocks:getBlocks",
                                 getBlocksRequest(versionId),
                                 [name |-> "saveDraft", error |-> "",
                                  versionId |-> versionId,
                                  blocks |-> made.blocks, sortedBlocks |-> <<>>,
                                  deleted |-> 0, createdBlocks |-> <<>>,
                                  before |-> BlocksOfVersion(versionId)]))
  /\ UNCHANGED <<codecVars, backendVars, editor, currentPage, currentVersion,
                 pc, wf, req, issued>>

deleteAllBlocksSortIn(s) ==
  /\ sessions[s].pc = "deleteAllBlocks:getBlocks"
  /\ \E rows \in getBlocksResponses(sessions[s].req.versionid) :
       SessionGoes(s, deleteAllBlocksNext(
                        [sessions[s].wf EXCEPT
                           !.sortedBlocks = sortByOrderDescending(rows),
                           !.deleted = 0]))
  /\ UNCHANGED <<codecVars, backendVars, editor, currentPage, currentVersion,
                 pc, wf, req, issued>>

\* The backend deletes the block row, or answers 404 when another save has
\* deleted it already: _fetch throws and the save ends.
deleteAllBlocksDeletedIn(s) ==
  /\ sessions[s].pc = "deleteAllBlocks:deleteBlock"
  /\ IF sessions[s].req.id \in DOMAIN pp_blocks
     THEN /\ pp_blocks' = [b \in DOMAIN pp_blocks \ {sessions[s].req.id} |->
                             pp_blocks[b]]
          /\ SessionGoes(s, deleteAllBlocksNext(
                              [sessions[s].wf EXCEPT !.deleted = @ + 1]))
     ELSE /\ UNCHANGED pp_blocks
          /\ SessionGoes(s, Goto("failed", NoReq,
                                 [sessions[s].wf EXCEPT !.error = "fetch"]))
  /\ UNCHANGED <<codecVars, pp_pages, pp_versions, nextId, editor, currentPage,
                 currentVersion, pc, wf, req, issued>>

saveDraftCreatedIn(s) ==
  /\ sessions[s].pc = "saveDraft:createBlock"
  /\ sessions[s].req.versionid \in DOMAIN pp_versions
  /\ pp_blocks' = pp_blocks @@ (nextId :> createdBlockRow(nextId, sessions[s].req))
  /\ nextId' = nextId + 1
  /\ SessionGoes(s, saveDraftNext(
                      [sessions[s].wf EXCEPT !.createdBlocks = Append(@, nextId)]))
  /\ UNCHANGED <<codecVars, pp_pages, pp_versions, editor, currentPage,
                 currentVersion, pc, wf, req, issued>>

ConcurrentInit ==
  /\ NoCodec
  /\ CreatedPage
  /\ editor = NoForest
  /\ currentPage = 0
  /\ currentVersion = 0
  /\ sessions = [s \in Sessions |->
                   [pc |-> "idle", req |-> NoReq, wf |-> NoWf, last |-> FALSE]]
  /\ isDirty = FALSE
  /\ pc = "idle"
  /\ wf = NoWf
  /\ req = NoReq
  /\ issued = <<>>

ConcurrentNext ==
  \/ EditorAddComponent
  \/ \E s \in Sessions : saveDraftIn(s)
  \/ \E s \in Sessions : deleteAllBlocksSortIn(s)
  \/ \E s \in Sessions : deleteAllBlocksDeletedIn(s)
  \/ \E s \in Sessions : saveDraftCreatedIn(s)

SpecConcurrent == ConcurrentInit /\ [][ConcurrentNext]_vars

\* C14 (last writer wins): when the concurrent saves of a version have all
\* completed, the block rows stored for the version are exactly the rows
\* one of them created, the one that returned last, never rows of several.
LastSaveWins ==
  (\A s \in Sessions : sessions[s].pc = "done") =>
    \E s \in Sessions :
      /\ sessions[s].last
      /\ BlocksOfVersion(sessions[s].wf.versionId)
           = Range(sessions[s].wf.createdBlocks)


\* ------------------------------------------ loading rows with any pp_data
\* What the pp_data column of a stored block row may hold: the text
\* createBlock wrote, nothing, or a text that is not JSON (the column is a
\* plain text column that other writers of the table also fill).
StoredPayloads ==
  Payloads \cup {[order |-> 1, type |-> "pp_content_text", data |-> "{\"text\":"]}

\* One more row of the block list getBlocks returns to the load.
StoredAddBlock ==
  /\ codecStep = "input"
  /\ Len(flatBlocks) < MaxBlocks
  /\ \E parentId \in ParentIds, payload \in StoredPayloads :
       flatBlocks' = Append(flatBlocks,
                            BlockRecord("dataverse", BlockIdAt(Len(flatBlocks) + 1),
                                        parentId, payload))
  /\ UNCHANGED <<blockShape, rootBlocks, flatOut, rootBlocks2,
                 grapesComponents, savedBlocks, codecStep>>

StoredInit ==
  /\ CodecInit
  /\ blockShape = "dataverse"

StoredNext ==
  /\ \/ StoredAddBlock
     \/ CodecLoad
     \/ CodecSave
  /\ UNCHANGED <<backendVars, clientVars>>

SpecStored == StoredInit /\ [][StoredNext]_vars

\* The rows of the list whose pp_data is not valid serialized data.
Malformed(blocks) ==
  {i \in 1..Len(blocks) : blocks[i].pp_data # "" /\ ~JSONparses(blocks[i].pp_data)}

\* C15 (malformed stored settings): when the settings text of one block of
\* the loaded list is not valid serialized data, the conversion of the load
\* still completes; that block is loaded with empty settings and every
\* other block with its own settings.
MalformedSettingsLoadEmpty ==
  (codecStep = "loaded" /\ Cardinality(Malformed(flatBlocks)) = 1) =>
    /\ grapesComponents.error = ""
    /\ Len(grapesComponents.heap) = Len(flatBlocks)
    /\ \A i \in 1..Len(flatBlocks) :
         grapesComponents.heap[i].traits =
           IF i \in Malformed(flatBlocks) \/ flatBlocks[i].pp_data = ""
           THEN EmptySettings
           ELSE JSONparse(flatBlocks[i].pp_data)


\* ------------------------------------------- the page manager's createPage
\* What the user may have typed as the slug, as a sequence of characters
\* (a lowercase letter, a digit, the hyphen, an uppercase letter and the
\* space stand for their kinds): nothing, blanks, a letter, a digit and a
\* hyphen, a letter between blanks, an uppercase letter after a lowercase
\* one, and a blank between two letters.
FieldValues ==
  { <<>>, <<" ">>, <<"a">>, <<"7", "-">>, <<" ", "a", " ">>, <<"a", "A">>,
    <<"a", " ", "a">> }

\* What the user may have typed as the page name.
NameValues == {<<>>, <<" ">>, <<"A">>}

RECURSIVE trimStart(_)
trimStart(value) ==
  IF value # <<>> /\ value[1] = " " THEN trimStart(Tail(value)) ELSE value

RECURSIVE trimEnd(_)
trimEnd(value) ==
  IF value # <<>> /\ value[Len(value)] = " "
  THEN trimEnd(SubSeq(value, 1, Len(value) - 1))
  ELSE value

\* String.prototype.trim.
trim(value) == trimEnd(trimStart(value))

\* A mutant of slugPattern: the pattern without its anchors.
slugPatternUnanchored(slug) ==
  \E i \in 1..Len(slug) : slug[i] \in {"a", "7", "-"}

\* /^[a-z0-9-]+$/.test(slug)
slugPattern(slug) ==
  /\ Len(slug) >= 1
  /\ \A i \in 1..Len(slug) : slug[i] \in {"a", "7", "-"}

\* POST pp_pages.
createPageRequest(slug) == [op |-> "createPage", pp_slug |-> slug]

\* createPage(dialog) up to its first await: the three checks, each of
\* which shows its error and returns, then apiClient.createPage.
createPage ==
  /\ Resting
  /\ \E nameValue \in NameValues, slugValue \in FieldValues :
       LET name == trim(nameValue)
           slug == trim(slugValue)
           input == [name |-> name, slug |-> slug]
       IN IF name = <<>>
          THEN appReturns("createPage", "Page name is required", input)
          ELSE IF slug = <<>>
          THEN appReturns("createPage", "URL slug is required", input)
          ELSE IF ~slugPattern(slug)
          THEN appReturns("createPage", "Slug can only contain", input)
          ELSE /\ nextId + 2 <= MaxRows + 1
               /\ Start(Goto("createPage:createPage", createPageRequest(slug),
                             [name |-> "createPage", app |-> "createPage",
                              error |-> "", input |-> input,
                              backendBefore |->
                                <<pp_pages, pp_versions, pp_blocks>>]))
  /\ UNCHANGED <<codecVars, backendVars, appVars>>

\* The backend stores the page row; createPage goes on to the first version
\* of the page ('v1.0 - Draft', version number 1, status 1).
createPageCreated ==
  /\ pc = "createPage:createPage"
  /\ pp_pages' = pp_pages @@ (nextId :> [pp_pageid |-> nextId,
                                         pp_slug |-> req.pp_slug])
  /\ nextId' = nextId + 1
  /\ Continue(Goto("createPage:createPageVersion",
                   createPageVersionRequest(nextId, 1, 1), wf))
  /\ UNCHANGED <<codecVars, pp_versions, pp_blocks, appVars>>

createPageCreatedVersion ==
  /\ pc = "createPage:createPageVersion"
  /\ req.pageid \in DOMAIN pp_pages
  /\ pp_versions' = pp_versions @@ (nextId :> createdVersionRow(nextId, req))
  /\ nextId' = nextId + 1
  /\ Continue(Goto("createPage:loadPagesList", getPagesListRequest, wf))
  /\ UNCHANGED <<codecVars, pp_pages, pp_blocks, appVars>>

\* The locals of loadPageForEditing(pageSlug) at its first await.
loadPageForEditingLocals(pageSlug) ==
  [name |-> "loadPageForEditing", error |-> "", pageSlug |-> pageSlug,
   page |-> 0, answeredFrom |-> <<>>]

\* loadPagesList returns, having caught a failure of its request if there
\* was one; createPage calls this.app.loadPage(slug) without awaiting it,
\* and loadPage runs up to the first await of loadPageForEditing.
createPageListed ==
  /\ pc = "createPage:loadPagesList"
  /\ Start(Goto("loadPageForEditing:getPageBySlug",
                getPagesRequest(wf.input.slug),
                loadPageForEditingLocals(wf.input.slug)))
  /\ UNCHANGED <<codecVars, backendVars, appVars>>

\* A mutant of loadPage: the editor is cleared and the current version
\* forgotten before loadPageForEditing is awaited.
loadPageClearingFirst ==
  /\ Resting
  /\ \E slugValue \in FieldValues :
       Start(Goto("loadPageForEditing:getPageBySlug",
                  getPagesRequest(trim(slugValue)),
                  loadPageForEditingLocals(trim(slugValue))))
  /\ editor' = NoForest
  /\ currentVersion' = 0
  /\ UNCHANGED <<codecVars, backendVars, currentPage, sessions, isDirty>>

\* The application's loadPage(pageSlug), for the slug of the page selector
\* or of the address, up to the first await of loadPageForEditing.
loadPage ==
  /\ Resting
  /\ \E slugValue \in FieldValues :
       Start(Goto("loadPageForEditing:getPageBySlug",
                  getPagesRequest(trim(slugValue)),
                  loadPageForEditingLocals(trim(slugValue))))
  /\ UNCHANGED <<codecVars, backendVars, appVars>>

\* The page manager and the application over an empty site; the canvas
\* holds plain elements only, so that a save either fails validation or
\* saves no block.
PagesInit ==
  /\ NoCodec
  /\ NoBackend
  /\ NoClient

PagesNext ==
  \/ createPage
  \/ createPageCreated
  \/ createPageCreatedVersion
  \/ createPageListed
  \/ loadPage
  \/ loadPageForEditingThrows
  \/ EditorAddElement
  \/ setCurrentVersion
  \/ appSaveDraft
  \/ deleteAllBlocksSort
  \/ fetchThrows

SpecPages == PagesInit /\ [][PagesNext]_vars

\* The workflow in wf was given an input that fails validation: createPage
\* an empty name, an empty slug or a slug with a character that is neither
\* a lowercase letter, a digit nor a hyphen; the application's saveDraft a
\* block list for which validateBlocks reports an error.
InputFailsValidation ==
  \/ /\ wf.name = "createPage"
     /\ \/ wf.input.name = <<>>
        \/ wf.input.slug = <<>>
        \/ \E i \in 1..Len(wf.input.slug) : wf.input.slug[i] \in {"A", " "}
  \/ /\ wf.name = "saveDraft"
     /\ "app" \in DOMAIN wf
     /\ wf.app = "saveDraft"
     /\ currentVersion # 0
     /\ IF "input" \in DOMAIN wf THEN ~validateBlocks(wf.input)
        ELSE ~validateBlocks(wf.blocks)

\* C16 (validation precedes the network): a workflow whose input fails
\* validation has issued no backend request and has left the pages, versions
\* and blocks of the backend as they were.
ValidationPrecedesNetwork ==
  InputFailsValidation =>
    /\ issued = <<>>
    /\ req = NoReq
    /\ <<pp_pages, pp_versions, pp_blocks>> = wf.backendBefore

\* createPage has rejected a slug with an uppercase letter after letters
\* that pass, while a page created earlier is stored.
ValidationWitness ==
  /\ wf.name = "createPage"
  /\ pc = "failed"
  /\ wf.input.name # <<>>
  /\ Len(wf.input.slug) = 2
  /\ wf.input.slug[1] = "a"
  /\ wf.input.slug[2] = "A"
  /\ DOMAIN pp_pages # {}


\* The pages the slug of the load in wf matches.
PagesOfSlug == {p \in DOMAIN pp_pages : pp_pages[p].pp_slug = wf.pageSlug}

\* C17 (not-found errors terminate the load): with no request failing,
\* loadPageForEditing for a slug that matches no page fails with 'Page not
\* found' having issued the page lookup only; for a page that has no version
\* it fails with 'No active version found' having issued no block request.
LoadFailsWithNotFound ==
  (wf.name = "loadPageForEditing" /\ Resting /\ wf.error # "fetch") =>
    /\ PagesOfSlug = {} =>
         /\ pc = "failed"
         /\ wf.error = "Page not found"
         /\ [i \in 1..Len(issued) |-> issued[i].op] = <<"getPages">>
    /\ (PagesOfSlug # {} /\ \A p \in PagesOfSlug : VersionsOfPage(p) = {}) =>
         /\ pc = "failed"
         /\ wf.error = "No active version found"
         /\ \A i \in 1..Len(issued) : issued[i].op # "getBlocks"


\* ------------------------------------------------------------------ _fetch
\* The responses the backend, or what stands before it, may give: status
\* and status text, and the text of the body.
StatusTexts ==
  (200 :> "OK") @@ (201 :> "Created") @@ (204 :> "No Content")
    @@ (400 :> "Bad Request") @@ (404 :> "Not Found")
    @@ (500 :> "Internal Server Error")

Bodies ==
  { "", "<html>", "null", "{}", "{\"value\":[]}",
    "{\"error\":{\"code\":\"0x80040217\"}}",
    "{\"error\":{\"message\":\"\"}}",
    "{\"error\":{\"message\":\"Record does not exist\"}}" }

Responses ==
  {[status |-> st, statusText |-> StatusTexts[st], body |-> b] :
     st \in DOMAIN StatusTexts, b \in Bodies}

\* response.ok
ok(response) == response.status >= 200 /\ response.status <= 299

\* JSON null.
JsNull == [type |-> "null"]

\* response.json(): rejected when the body is not JSON, else the value.
responseJson(response) ==
  CASE response.body = "null" -> [rejected |-> FALSE, value |-> JsNull]
    [] response.body = "{}" -> [rejected |-> FALSE, value |-> [type |-> "object"]]
    [] response.body = "{\"value\":[]}" ->
         [rejected |-> FALSE, value |-> [type |-> "object", value |-> <<>>]]
    [] response.body = "{\"error\":{\"code\":\"0x80040217\"}}" ->
         [rejected |-> FALSE,
          value |-> [type |-> "object", error |-> [code |-> "0x80040217"]]]
    [] response.body = "{\"error\":{\"message\":\"\"}}" ->
         [rejected |-> FALSE,
          value |-> [type |-> "object", error |-> [message |-> ""]]]
    [] response.body = "{\"error\":{\"message\":\"Record does not exist\"}}" ->
         [rejected |-> FALSE,
          value |-> [type |-> "object",
                     error |-> [message |-> "Record does not exist"]]]
    [] OTHER -> [rejected |-> TRUE, value |-> JsNull]

Returns(value) == [threw |-> FALSE, value |-> value]

Throws(name, message) == [threw |-> TRUE, name |-> name, message |-> message]

\* `HTTP ${response.status}: ${response.statusText}`
httpMessage(response) ==
  "HTTP " \o ToString(response.status) \o ": " \o response.statusText

\* The error of a response that is not ok: the body read with
\* response.json().catch(() => ({})), then error.error?.message, or the
\* status line when that is undefined or empty.  Reading .error of null
\* throws a TypeError.
errorThrown(response) ==
  LET parsed == responseJson(response)
      error == IF parsed.rejected THEN [type |-> "object"] ELSE parsed.value
  IN IF error = JsNull
     THEN Throws("TypeError", "Cannot read properties of null")
     ELSE IF /\ "error" \in DOMAIN error
             /\ "message" \in DOMAIN error.error
             /\ error.error.message # ""
          THEN Throws("Error", error.error.message)
          ELSE Throws("Error", httpMessage(response))

\* What _fetch gives its caller for a response; its catch logs and rethrows.
apiFetch(response) ==
  IF response.status = 204 THEN Returns([type |-> "object", success |-> TRUE])
  ELSE IF ~ok(response) THEN errorThrown(response)
  ELSE IF responseJson(response).rejected
       THEN Throws("SyntaxError", "Unexpected end of JSON input")
       ELSE Returns(responseJson(response).value)

Methods == {"GET", "POST", "PATCH", "DELETE"}

\* _fetch(url, options) up to its await of fetch.
apiFetchCalls ==
  /\ Resting
  /\ \E method \in Methods :
       Start(Goto("_fetch:fetch", [op |-> "fetch", method |-> method],
                  [name |-> "_fetch", error |-> ""]))
  /\ UNCHANGED <<codecVars, backendVars, appVars>>

\* fetch resolves with a response and _fetch returns or throws.
apiFetchResponds ==
  /\ pc = "_fetch:fetch"
  /\ \E response \in Responses :
       LET result == apiFetch(response)
       IN Continue(Goto(IF result.threw THEN "failed" ELSE "done", NoReq,
                        [name |-> "_fetch",
                         error |-> IF result.threw THEN result.name ELSE "",
                         method |-> req.method, response |-> response,
                         result |-> result]))
  /\ UNCHANGED <<codecVars, backendVars, appVars>>

\* fetch rejects (the network fails) and _fetch rethrows.
apiFetchRejects ==
  /\ pc = "_fetch:fetch"
  /\ Continue(Goto("failed", NoReq,
                   [name |-> "_fetch", error |-> "TypeError",
                    method |-> req.method,
                    result |-> Throws("TypeError", "Failed to fetch")]))
  /\ UNCHANGED <<codecVars, backendVars, appVars>>

FetchInit ==
  /\ NoCodec
  /\ NoBackend
  /\ NoClient

FetchNext ==
  \/ apiFetchCalls
  \/ apiFetchResponds
  \/ apiFetchRejects

SpecFetch == FetchInit /\ [][FetchNext]_vars

\* The message the body of a response carries, "" when it carries none.
BodyMessage(response) ==
  CASE response.body = "{\"error\":{\"message\":\"Record does not exist\"}}" ->
         "Record does not exist"
    [] OTHER -> ""

\* C18 (response handling in _fetch): a 204 response gives the success
\* result; any other response outside 200..299 raises an error whose message
\* is the message the body carries, or 'HTTP <status>: <status text>' when it
\* carries none; a response in 200..299 other than 204 whose body is JSON
\* gives the parsed body.
FetchHandlesResponse ==
  (wf.name = "_fetch" /\ Resting /\ "response" \in DOMAIN wf) =>
    LET response == wf.response
        result == wf.result
    IN /\ response.status = 204 =>
            result = Returns([type |-> "object", success |-> TRUE])
       /\ (response.status < 200 \/ response.status > 299) =>
            /\ result.threw
            /\ result.message =
                 IF BodyMessage(response) # "" THEN BodyMessage(response)
                 ELSE httpMessage(response)
       /\ ( /\ response.status >= 200
            /\ response.status <= 299
            /\ response.status # 204
            /\ ~responseJson(response).rejected ) =>
            result = Returns(responseJson(response).value)


\* C19 (delete page stops at the first error): when a block-delete or a
\* version-delete request of deletePage fails (the wait for it ends with the
\* row still stored), the workflow ends with that one error and issues no
\* further request; after such a failure the page-delete request has not
\* been issued and the page row remains.
DeleteStopsAtFirstError ==
  /\ [][( /\ wf.name = "deletePage"
          /\ req.op \in {"deleteBlock", "deletePageVersion"}
          /\ req' # req
          /\ UNCHANGED <<pp_blocks, pp_versions>> ) =>
          /\ pc' = "failed"
          /\ req' = NoReq
          /\ issued' = issued
          /\ wf'.error = "fetch"
          /\ UNCHANGED pp_pages]_vars
  /\ []( ( /\ wf.name = "deletePage"
           /\ pc = "failed"
           /\ issued # <<>>
           /\ Last(issued).op \in {"deleteBlock", "deletePageVersion"} ) =>
           /\ \A i \in 1..Len(issued) : issued[i].op # "deletePage"
           /\ wf.pageId \in DOMAIN pp_pages )

\* deletePage has failed at the delete of a version whose blocks it had
\* deleted before.
DeleteErrorWitness ==
  /\ wf.name = "deletePage"
  /\ pc = "failed"
  /\ issued # <<>>
  /\ Last(issued).op = "deletePageVersion"
  /\ \E i \in 1..Len(issued) : issued[i].op = "deleteBlock"
  /\ wf.pageId \in DOMAIN pp_pages


\* ------------------------------------------------------ _settingsToClasses
\* paddingMap[key]: the class of an own key; for a key that Object.prototype
\* gives every object literal, the inherited member (written as the text
\* classes.join(' ') makes of it); otherwise undefined ("").
paddingMap(key) ==
  CASE key = "none" -> "tw-p-0"
    [] key = "small" -> "tw-p-4"
    [] key = "medium" -> "tw-p-8"
    [] key = "large" -> "tw-p-16"
    [] key = "xlarge" -> "tw-p-24"
    [] key = "toString" -> "function toString() { [native code] }"
    [] key = "constructor" -> "function Object() { [native code] }"
    [] OTHER -> ""

marginMap(key) ==
  CASE key = "none" -> "tw-m-0"
    [] key = "small" -> "tw-m-4"
    [] key = "medium" -> "tw-m-8"
    [] key = "large" -> "tw-m-16"
    [] key = "toString" -> "function toString() { [native code] }"
    [] key = "constructor" -> "function Object() { [native code] }"
    [] OTHER -> ""

\* a || b on texts, undefined being "".
TextOrElse(a, b) == IF a # "" THEN a ELSE b

\* classes.filter(c => c)
filterTruthy(classes) == SelectSeq(classes, LAMBDA c : c # "")

\* _settingsToClasses(settings, templateName): each section pushes its
\* class when the setting is truthy; the falsy entries are filtered out.
settingsToClasses(settings) ==
  LET backgroundColor == SettingOf(settings, "backgroundColor")
      color == SettingOf(settings, "color")
      padding == SettingOf(settings, "padding")
      margin == SettingOf(settings, "margin")
      align == SettingOf(settings, "align")
      fontSize == SettingOf(settings, "fontSize")
      fontWeight == SettingOf(settings, "fontWeight")
      containerWidth == SettingOf(settings, "containerWidth")
      c1 == IF backgroundColor = "" THEN <<>>
            ELSE IF backgroundColor = "transparent" THEN <<"tw-bg-transparent">>
            ELSE IF backgroundColor = "primary" THEN <<"tw-bg-primary">>
            ELSE <<"tw-bg-" \o backgroundColor \o "-"
                     \o TextOrElse(SettingOf(settings, "backgroundShade"), "600")>>
      c2 == IF color = "" THEN <<>>
            ELSE IF color = "white" THEN <<"tw-text-white">>
            ELSE <<"tw-text-" \o color \o "-"
                     \o TextOrElse(SettingOf(settings, "colorShade"), "900")>>
      c3 == IF padding = "" THEN <<>> ELSE <<TextOrElse(paddingMap(padding), "")>>
      c4 == IF margin = "" THEN <<>> ELSE <<TextOrElse(marginMap(margin), "")>>
      c5 == IF align = "" THEN <<>> ELSE <<"tw-text-" \o align>>
      c6 == IF fontSize = "" THEN <<>> ELSE <<"tw-text-" \o fontSize>>
      c7 == IF fontWeight = "" THEN <<>> ELSE <<"tw-font-" \o fontWeight>>
      c8 == CASE containerWidth = "container" ->
                   <<"tw-container tw-mx-auto tw-px-4">>
              [] containerWidth = "narrow" -> <<"tw-max-w-4xl tw-mx-auto tw-px-4">>
              [] containerWidth = "wide" -> <<"tw-max-w-7xl tw-mx-auto tw-px-4">>
              [] containerWidth = "full" -> <<"tw-w-full">>
              [] OTHER -> <<>>
  IN filterTruthy(c1 \o c2 \o c3 \o c4 \o c5 \o c6 \o c7 \o c8)

\* The values a block's settings may carry for the keys the classes are
\* made from: the options of the traits, and other texts stored with a block.
SettingValues ==
  [padding |-> {"none", "small", "medium", "large", "xlarge", "", "huge",
                "toString", "constructor"},
   margin |-> {"small", "wide"},
   backgroundColor |-> {"primary", "blue"},
   color |-> {"white", "gray"},
   align |-> {"center"},
   containerWidth |-> {"full", "odd"}]

\* One more key of the settings of the block that is to be rendered.
settingsAssign ==
  /\ pc = "idle"
  /\ wf.name \in {"none", "settingsToClasses"}
  /\ \E key \in DOMAIN SettingValues :
       /\ wf.name = "settingsToClasses" =>
            \A kv \in wf.settings : kv[1] # key
       /\ \E value \in SettingValues[key] :
            wf' = [name |-> "settingsToClasses", error |-> "",
                   settings |-> (IF wf.name = "none" THEN EmptySettings
                                 ELSE wf.settings) \cup {<<key, value>>},
                   classes |-> <<>>]
  /\ UNCHANGED <<codecVars, backendVars, appVars, pc, req, issued>>

\* _settingsToAttributes calls _settingsToClasses(settings, templateName).
settingsToClassesCalled ==
  /\ pc = "idle"
  /\ wf.name = "settingsToClasses"
  /\ pc' = "done"
  /\ wf' = [wf EXCEPT !.classes = settingsToClasses(wf.settings)]
  /\ UNCHANGED <<codecVars, backendVars, appVars, req, issued>>

ClassesInit ==
  /\ NoCodec
  /\ NoBackend
  /\ NoClient

ClassesNext ==
  \/ settingsAssign
  \/ settingsToClassesCalled

SpecClasses == ClassesInit /\ [][ClassesNext]_vars

\* The fixed table of padding classes.
PaddingClasses ==
  [none |-> "tw-p-0", small |-> "tw-p-4", medium |-> "tw-p-8",
   large |-> "tw-p-16", xlarge |-> "tw-p-24"]

\* C20 (padding class determinism): for settings whose only key is padding,
\* _settingsToClasses returns exactly the one class of the fixed table when
\* the value is in the table and the empty list when it is any other
\* string; the result never contains an empty string.
PaddingClassIsDetermined ==
  ( /\ wf.name = "settingsToClasses"
    /\ pc = "done"
    /\ {kv[1] : kv \in wf.settings} = {"padding"} ) =>
      LET padding == SettingOf(wf.settings, "padding")
      IN /\ padding \in DOMAIN PaddingClasses =>
              wf.classes = <<PaddingClasses[padding]>>
         /\ padding \notin DOMAIN PaddingClasses => wf.classes = <<>>
         /\ \A i \in 1..Len(wf.classes) : wf.classes[i] # ""


\* ----------------------------------------- components with attributes
\* The traits a component on the canvas may carry: a name with a value, or
\* with none ("").
TraitSets ==
  { {}, {<<"text", "bye">>}, {<<"text", "">>},
    {<<"text", "bye">>, <<"padding", "">>},
    {<<"text", "bye">>, <<"padding", "large">>} }

\* The data-settings attribute a component may carry: none, a text that is
\* not JSON, or serialized settings.
DataSettingsTexts == {"", "{\"text\":"} \cup JsonTexts

\* A component with traits and a data-settings attribute is put on the
\* canvas.
EditorAddAttributed ==
  /\ codecStep = "loaded"
  /\ grapesComponents.error = ""
  /\ Len(grapesComponents.heap) < MaxComponents
  /\ \E traits \in TraitSets, dataSettings \in DataSettingsTexts,
        templateName \in {"pp_layout_row", "pp_content_text"} :
       LET ref == Len(grapesComponents.heap) + 1
       IN grapesComponents' =
            [grapesComponents EXCEPT
               !.roots = Append(@, ref),
               !.heap = Append(@, [type |-> templateName, blockId |-> 0,
                                   dataSettings |-> dataSettings,
                                   traits |-> traits, content |-> "",
                                   components |-> <<>>])]
  /\ UNCHANGED <<blockShape, flatBlocks, rootBlocks, flatOut, rootBlocks2,
                 savedBlocks, codecStep>>

\* The editor after the load of a page without blocks.
ExtractInit ==
  /\ blockShape = "dataverse"
  /\ flatBlocks = <<>>
  /\ rootBlocks = NoForest
  /\ flatOut = <<>>
  /\ rootBlocks2 = NoForest
  /\ grapesComponents = [error |-> "", roots |-> <<>>, heap |-> <<>>]
  /\ savedBlocks = <<>>
  /\ codecStep = "loaded"
  /\ NoBackend
  /\ NoClient

ExtractNext ==
  /\ \/ EditorAddAttributed
     \/ CodecSave
  /\ UNCHANGED <<backendVars, clientVars>>

SpecExtract == ExtractInit /\ [][ExtractNext]_vars

\* The pairs of the data-settings attribute of a component, none when it
\* has no such attribute or the attribute is not JSON.
AttributePairs(component) ==
  IF component.dataSettings \in JsonTexts THEN JSONparse(component.dataSettings)
  ELSE {}

\* C21 (reverse settings extraction): the settings of the block made from a
\* component are its traits that have a value, overlaid with the pairs of
\* its data-settings attribute, the attribute winning on a key both have;
\* an attribute that cannot be parsed leaves the settings of the traits, and
\* the conversion does not fail.
SettingsAreTraitsOverlaid ==
  codecStep = "saved" =>
    /\ Len(savedBlocks) = Len(grapesComponents.heap)
    /\ \A k \in 1..Len(savedBlocks) :
         LET component == grapesComponents.heap[k]
             valued == {kv \in component.traits : kv[2] # ""}
             pairs == AttributePairs(component)
         IN savedBlocks[k].settings =
              {kv \in valued : \A sv \in pairs : sv[1] # kv[1]} \cup pairs

\* A component whose text trait collides with the text of its attribute and
\* whose padding trait has no value, and one whose attribute is not JSON,
\* were converted.
SettingsWitness ==
  /\ codecStep = "saved"
  /\ \E k \in 1..Len(savedBlocks) :
       /\ grapesComponents.heap[k].traits = {<<"text", "bye">>, <<"padding", "">>}
       /\ grapesComponents.heap[k].dataSettings = "{\"text\":\"hi\"}"
  /\ \E k \in 1..Len(savedBlocks) :
       /\ grapesComponents.heap[k].dataSettings = "{\"text\":"
       /\ grapesComponents.heap[k].traits # {}


\* ----------------------------------------------------------------- C22
\* In records, the flattening of forest: every record that names a parent
\* comes after the record of the immediate parent of its node, whose id it
\* names, and the records of the roots name none.
ParentsComeFirst(records, forest) ==
  /\ Len(records) = Len(PreOrder(forest))
  /\ \A k \in 1..Len(records) :
       LET parent == ParentRef(forest, PreOrder(forest)[k])
       IN /\ records[k].parentBlockId # 0 =>
               \E j \in 1..(k - 1) :
                 /\ PreOrder(forest)[j] = parent
                 /\ records[j].id = records[k].parentBlockId
          /\ parent = 0 => records[k].parentBlockId = 0

\* C22 (flatten emits parents before children): in the list flattenBlockTree
\* or grapesJSToDataverse returns, every record with a parentBlockId comes
\* at a later index than the record with that id, which is the record of
\* the node's immediate parent; root records have no parentBlockId.
FlattenEmitsParentsFirst ==
  /\ codecStep = "flattened" => ParentsComeFirst(flatOut, rootBlocks)
  /\ codecStep = "saved" => ParentsComeFirst(savedBlocks, grapesComponents)

\* A chain of three nodes was flattened, its records naming their parents.
ParentsFirstWitness ==
  /\ codecStep = "flattened"
  /\ Len(flatOut) = 3
  /\ flatOut[2].parentBlockId = flatOut[1].id
  /\ flatOut[3].parentBlockId = flatOut[2].id
  /\ flatOut[2].parentBlockId # 0
  /\ flatOut[3].parentBlockId # 0


\* ----------------------------------------------------------------- C23
\* Rows for a page, its draft with MaxBlocks blocks and the clone of both.
CloneRows == 2 * MaxBlocks + 3

\* createBlock(blockData) for one more block of a draft, at the top level or
\* under a block of the draft, with the sort order the caller passes.
createBlockSorted ==
  /\ Resting
  /\ nextId <= MaxRows
  /\ \E versionId \in DOMAIN pp_versions :
       /\ pp_versions[versionId].pp_status = Draft
       /\ Cardinality(BlocksOfVersion(versionId)) < MaxBlocks
       /\ \E parentBlockId \in {0} \cup BlocksOfVersion(versionId),
             sortOrder \in 0..(MaxBlocks - 1) :
            pp_blocks' = pp_blocks @@
              (nextId :> createdBlockRow(nextId,
                 createBlockRequest(
                   [pageversionId |-> versionId, parentBlockId |-> parentBlockId,
                    templateName |-> "pp_layout_row",
                    blockType |-> getBlockTypeFromTemplate("pp_layout_row"),
                    sortOrder |-> sortOrder,
                    settings |-> PaddingSettings, isActive |-> TRUE])))
  /\ nextId' = nextId + 1
  /\ UNCHANGED <<codecVars, pp_pages, pp_versions, clientVars>>

CloneInit == PublishInit

CloneNext ==
  \/ createBlockSorted
  \/ publishPageWithin(CloneRows)
  \/ publishPageGotVersion
  \/ publishPageGotBlocks
  \/ publishPageGotPublished
  \/ publishPageArchived
  \/ publishPageCreatedVersion
  \/ publishPageCreatedBlock
  \/ fetchThrows

SpecClone == CloneInit /\ [][CloneNext]_vars

\* The blocks of version `to` are the blocks of version `from`, one for
\* one, under the same parents.
SameForest(from, to) ==
  \E clone \in [BlocksOfVersion(from) -> BlocksOfVersion(to)] :
    /\ \A a, b \in BlocksOfVersion(from) : a # b => clone[a] # clone[b]
    /\ {clone[b] : b \in BlocksOfVersion(from)} = BlocksOfVersion(to)
    /\ \A b \in BlocksOfVersion(from) :
         pp_blocks[clone[b]].pp_parentblockid =
           IF pp_blocks[b].pp_parentblockid = 0 THEN 0
           ELSE clone[pp_blocks[b].pp_parentblockid]

\* C23 (full-clone publish preserves the block forest): when publishPage
\* has completed, the new Published version holds one block per block of
\* the draft, under the clone of its parent, whatever the depth of the
\* forest and the sort orders of its blocks.
PublishClonesTheForest ==
  [][(pc # "done" /\ pc' = "done" /\ wf'.name = "publishPage") =>
       SameForest(wf.draftVersionId, wf.publishedVersion)']_vars

\* ----------------------------------------------------------------- C24
\* Versions whose blocks were stored with parent links and any sort orders,
\* some of them switched off; saveDraft runs on them with the components of
\* the editor.
OrderInit == PublishInit

OrderNext ==
  \/ createBlockSorted
  \/ updateBlock
  \/ saveDraft
  \/ deleteAllBlocksSort
  \/ deleteAllBlocksDeleted
  \/ fetchThrows

SpecOrder == OrderInit /\ [][OrderNext]_vars

\* The row of block id in the set rows, which holds it.
RowOf(rows, id) == CHOOSE r \in rows : r.pp_blockid = id

\* Block id and the blocks above it in rows, at most fuel of them.
RECURSIVE AncestorsOrSelf(_, _, _)
AncestorsOrSelf(rows, id, fuel) ==
  IF fuel = 0 \/ id \notin {r.pp_blockid : r \in rows}
  THEN {}
  ELSE {id} \cup AncestorsOrSelf(rows, RowOf(rows, id).pp_parentblockid, fuel - 1)

\* rows carry the sort orders flattenBlockTree's traverse assigns: 0, 1, ...
\* in pre-order, so that the row numbered just before a child is its parent
\* or lies under its parent.
SortedAsFlattened(rows) ==
  /\ \A r, q \in rows : r.pp_order = q.pp_order => r = q
  /\ {r.pp_order : r \in rows} = 0..(Cardinality(rows) - 1)
  /\ \A r \in rows :
       r.pp_parentblockid # 0 =>
         \E q \in rows :
           /\ q.pp_order = r.pp_order - 1
           /\ r.pp_parentblockid \in
                AncestorsOrSelf(rows, q.pp_blockid, Cardinality(rows))

\* The rows the version held when deleteAllBlocks listed it: those it has
\* deleted and those still stored.
RowsAtStart ==
  {wf.sortedBlocks[i] : i \in 1..wf.deleted}
    \cup {pp_blocks[b] : b \in BlocksOfVersion(wf.versionId)}

\* C24 (delete order handles parent-child relationships): when the blocks
\* of a version carry the sort orders of the flatten step, deleteAllBlocks
\* issues the delete of a block only after the deletes of the blocks under
\* it, so that no stored block names the block being deleted as its parent.
DeletesChildrenFirst ==
  (/\ wf.name = "saveDraft"
   /\ pc = "deleteAllBlocks:deleteBlock"
   /\ SortedAsFlattened(RowsAtStart)) =>
    \A b \in BlocksOfVersion(wf.versionId) :
      pp_blocks[b].pp_parentblockid # req.id

\* The same with every block of the version active: the case in which the
\* order of the deletes alone decides.
DeletesListedChildrenFirst ==
  (/\ wf.name = "saveDraft"
   /\ \A b \in BlocksOfVersion(wf.versionId) : pp_blocks[b].pp_isactive) =>
    DeletesChildrenFirst


\* ----------------------------------------------------------------- C25
\* C25 (partial completion of save draft): when a request of saveDraft
\* fails, the workflow ends there with the error, no further request is
\* issued and the backend is left as the completed requests made it: the
\* blocks already deleted stay deleted, the blocks already created stay
\* stored, and the blocks not yet reached are still there.
SaveStopsWhereItFails ==
  /\ [][(wf.name = "saveDraft" /\ req.op # "none" /\ pc' = "failed") =>
          /\ req' = NoReq
          /\ issued' = issued
          /\ wf' = [wf EXCEPT !.error = "fetch"]
          /\ UNCHANGED backendVars]_vars
  /\ []((wf.name = "saveDraft" /\ pc = "failed") =>
          /\ req = NoReq
          /\ BlocksOfVersion(wf.versionId) =
               (wf.before \ {wf.sortedBlocks[i].pp_blockid : i \in 1..wf.deleted})
                 \cup Range(wf.createdBlocks)
          /\ Len(wf.createdBlocks) <= Len(wf.blocks))

\* saveDraft has failed at its second createBlock, after it had deleted a
\* block and created one.
SaveFailedWitness ==
  /\ wf.name = "saveDraft"
  /\ pc = "failed"
  /\ wf.deleted = 1
  /\ Len(wf.createdBlocks) = 1
  /\ Len(wf.blocks) = 2
  /\ Last(issued).op = "createBlock"
  /\ Cardinality(BlocksOfVersion(wf.versionId)) = 1


\* ------------------------------------------------ the application's saves
\* The application's saveDraft(silent) as a save of its own, up to its first
\* await: the save button calls it on every click, the auto-save timer every
\* 60 seconds when isDirty && currentVersion; neither looks whether a save
\* is awaiting a response.  (With no version loaded the button's call shows
\* an error and changes nothing.)
appSaveDraftIn(s) ==
  /\ sessions[s].pc \in {"idle", "done", "failed"}
  /\ currentVersion # 0
  /\ s = "autoSave" => isDirty
  /\ LET made == grapesJSToDataverse(editor, currentVersion, 0)
     IN /\ validateBlocks(made.blocks)
        /\ nextId + PendingCreates + Len(made.blocks) <= MaxRows + 1
        /\ SessionGoes(s, Goto("deleteAllBlocks:getBlocks",
                               getBlocksRequest(currentVersion),
                               appSaveLocals("saveDraft", made.blocks)))
  /\ UNCHANGED <<codecVars, backendVars, editor, currentPage, currentVersion,
                 pc, wf, req, issued>>

AutoSaveInit == ConcurrentInit

AutoSaveNext ==
  \/ setCurrentVersion
  \/ EditorAddComponent
  \/ \E s \in Sessions : appSaveDraftIn(s)
  \/ \E s \in Sessions : deleteAllBlocksSortIn(s)
  \/ \E s \in Sessions : deleteAllBlocksDeletedIn(s)
  \/ \E s \in Sessions : saveDraftCreatedIn(s)

SpecAutoSave == AutoSaveInit /\ [][AutoSaveNext]_vars

\* The saves that await a response.
InFlight ==
  {s \in DOMAIN sessions : sessions[s].pc \notin {"idle", "done", "failed"}}

\* C26 (at most one save in flight): the timer's and the user's saveDraft
\* never await responses at the same time, and once the saves have returned
\* the loaded version stores no more blocks than the editor has components.
OneSaveInFlight ==
  /\ Cardinality(InFlight) <= 1
  /\ (currentVersion # 0 /\ InFlight = {}) =>
       Cardinality(BlocksOfVersion(currentVersion)) <= Len(editor.heap)

\* C27 (dirty flag soundness): while a page is loaded and isDirty is false,
\* the blocks of the save that returned last are the blocks of the editor's
\* components as they are now; an edit made while that save awaited a
\* response has left isDirty true.
DirtyFlagIsSound ==
  (currentVersion # 0 /\ ~isDirty) =>
    \A s \in DOMAIN sessions :
      sessions[s].last =>
        sessions[s].wf.blocks = grapesJSToDataverse(editor, currentVersion, 0).blocks


\* ----------------------------------------------------------------- C28
\* C28 (a failed load changes nothing): no step of a loadPage whose
\* loadPageForEditing raises, from the call to the catch, changes
\* currentPage, currentVersion, isDirty or the editor's components, so the
\* application is after the failure as it was before the call.
FailedLoadChangesNothing ==
  [][(wf'.name = "loadPageForEditing" /\ wf' # wf) =>
       UNCHANGED <<currentPage, currentVersion, isDirty, editor>>]_vars

\* A load has failed while a page was loaded and had unsaved components.
FailedLoadWitness ==
  /\ wf.name = "loadPageForEditing"
  /\ pc = "failed"
  /\ wf.error # ""
  /\ currentPage # 0
  /\ currentVersion # 0
  /\ isDirty
  /\ editor.roots # <<>>


\* ----------------------------------------------------------------- C29
\* Request r writes the row of version d or a block row of d.
WritesVersion(r, d) ==
  \/ r.op \in {"updatePageVersion", "deletePageVersion"} /\ r.id = d
  \/ r.op \in {"deleteBlock", "updateBlock"} /\ r.id \in BlocksOfVersion(d)
  \/ r.op = "createBlock" /\ r.versionid = d

\* C29 (full-clone publish leaves the draft untouched): publishPage(page,
\* draft) on a version in the Draft state issues no request that writes the
\* draft's row or a block of the draft, and none of its steps changes them:
\* the draft stays a Draft with the same blocks, parents and sort orders.
PublishLeavesDraftAlone ==
  /\ [][(/\ wf'.name = "publishPage"
         /\ <<pc, req, wf>>' # <<pc, req, wf>>
         /\ pp_versions[wf'.draftVersionId].pp_status = Draft) =>
          /\ pp_versions'[wf'.draftVersionId] = pp_versions[wf'.draftVersionId]
          /\ {b \in DOMAIN pp_blocks' :
                pp_blocks'[b].versionid = wf'.draftVersionId}
               = BlocksOfVersion(wf'.draftVersionId)
          /\ \A b \in BlocksOfVersion(wf'.draftVersionId) :
               pp_blocks'[b] = pp_blocks[b]]_vars
  /\ []((/\ wf.name = "publishPage"
         /\ pp_versions[wf.draftVersionId].pp_status = Draft) =>
          \A i \in 1..Len(issued) : ~WritesVersion(issued[i], wf.draftVersionId))

\* publishPage has completed for a draft that holds a block under a block,
\* having archived the version that was Published.
DraftUntouchedWitness ==
  /\ wf.name = "publishPage"
  /\ pc = "done"
  /\ pp_versions[wf.draftVersionId].pp_status = Draft
  /\ \E b \in BlocksOfVersion(wf.draftVersionId) :
       pp_blocks[b].pp_parentblockid # 0
  /\ \E i \in 1..Len(issued) : issued[i].op = "updatePageVersion"
  /\ wf.cloned = Cardinality(BlocksOfVersion(wf.draftVersionId))
  /\ wf.cloned > 0


\* ----------------------------------------------------------------- C30
\* The nodes below node ref, followed through at most fuel levels.
RECURSIVE Below(_, _, _)
Below(forest, ref, fuel) ==
  IF fuel = 0 THEN {}
  ELSE Range(ChildrenOf(forest, ref))
         \cup UNION {Below(forest, c, fuel - 1) : c \in Range(ChildrenOf(forest, ref))}

\* The nodes the roots of the forest lead to.
Reached(forest) ==
  Range(forest.roots)
    \cup UNION {Below(forest, r, Len(forest.heap)) : r \in Range(forest.roots)}

\* How often node ref is listed among the roots and the children of the
\* nodes the roots lead to.
RECURSIVE CountIn(_, _, _)
CountIn(refs, ref, k) ==
  IF k > Len(refs) THEN 0
  ELSE (IF refs[k] = ref THEN 1 ELSE 0) + CountIn(refs, ref, k + 1)

RECURSIVE SumOver(_, _, _)
SumOver(forest, nodes, ref) ==
  IF nodes = {} THEN 0
  ELSE LET p == CHOOSE q \in nodes : TRUE
       IN CountIn(ChildrenOf(forest, p), ref, 1) + SumOver(forest, nodes \ {p}, ref)

Occurrences(forest, ref) ==
  CountIn(forest.roots, ref, 1) + SumOver(forest, Reached(forest), ref)

\* The input names a parent in a circle: a block its own parent, or two
\* blocks each the parent of the other.
ParentCycle(blocks) ==
  \E i, j \in 1..Len(blocks) :
    /\ blockParentKey(blocks[i]) = blockKey(blocks[j])
    /\ blockParentKey(blocks[j]) = blockKey(blocks[i])

\* C30 (tree building is total and yields a finite forest): for every input
\* list, also one with a block that is its own parent or with parents in a
\* circle, buildBlockTree returns a forest in which every input block is
\* listed at most once and no node lies below itself, and flattenBlockTree
\* returns from it at most as many records as the input has blocks.
TreeBuildingIsTotal ==
  /\ codecStep \in {"built", "flattened", "rebuilt"} =>
       /\ Reached(rootBlocks) \subseteq 1..Len(flatBlocks)
       /\ \A ref \in 1..Len(flatBlocks) : Occurrences(rootBlocks, ref) <= 1
       /\ \A ref \in Reached(rootBlocks) :
            ref \notin Below(rootBlocks, ref, Len(flatBlocks))
  /\ codecStep \in {"flattened", "rebuilt"} =>
       /\ Len(flatOut) <= Len(flatBlocks)
       /\ Len(flatOut) = Cardinality(Reached(rootBlocks))

\* A list with a root and two blocks that name each other as parent was
\* built and flattened; a list with a block that is its own parent likewise.
TreeBuildingWitness ==
  /\ codecStep = "flattened"
  /\ Len(flatBlocks) = MaxBlocks
  /\ ParentCycle(flatBlocks)
  /\ flatOut # <<>>
  /\ Len(flatOut) < Len(flatBlocks)

====
